---- MODULE Spec2Model ----
(***************************************************************************)
(* csi-local-sparse: the node-local storage engine (sparse image files,    *)
(* loop associations, mount table) and the CSI controller / node RPCs     *)
(* that drive it.                                                          *)
(*                                                                         *)
(* Byte counts are measured in MiB, so that 200 GiB fits the integers of   *)
(* the model checker; Gb is therefore 1024.                                *)
(*                                                                         *)
(* The host is modelled by what the invoked tools do when they succeed:    *)
(*   truncate -s N f      creates f if absent and sets its logical length  *)
(*   rm -f f              unlinks f; a loop device bound to f keeps the    *)
(*                        unlinked file and is no longer found by path     *)
(*   losetup --find --show f   binds the lowest free loop device to f      *)
(*   losetup --associated f    lists the devices bound to f, lowest first  *)
(*   losetup --detach-all f    detaches all used devices of the host: -D   *)
(*                        takes no operand and f is not looked at; a       *)
(*                        device that is still in use by a mount is not    *)
(*                        freed but flagged autoclear and freed by the     *)
(*                        last umount (lazy device destruction,            *)
(*                        losetup(8))                                      *)
(*   mount / umount       push / pop an entry on the stack of mounts at    *)
(*                        the target path                                  *)
(*   findmnt -M p         lists the entries whose mount point is p         *)
(***************************************************************************)
EXTENDS Integers, Sequences, FiniteSets, TLC

\* ------------------------------------------------------------------ bounds
Ids == {"a", "b"}
NumTargets == 1
MaxOrphans == 1
NumLoopDev == Cardinality(Ids) + MaxOrphans

\* --------------------------------------------------------------- constants
Gb == 1024
defaultVolumeSize == 1 * Gb
minimumVolumeSize == 1 * Gb
maximumVolumeSize == 200 * Gb

nodeId == "n1"
nodeNameTopologyKey == "hostname"

\* ------------------------------------------------------------------- types
NoDev == -1
HostFs == -2
Devices == 0 .. (NumLoopDev - 1)

EmptyPath == <<"", "", 0>>
StagingPath(id) == <<"stage", id, 0>>
TargetPath(id, k) == <<"pub", id, k>>
StagingPaths == {StagingPath(id) : id \in Ids}
TargetPaths == {TargetPath(id, k) : id \in Ids, k \in 1 .. NumTargets}
Paths == StagingPaths \cup TargetPaths

\* mkfsRuns counts the runs of mkfs on the image file since it was created.
NoImage == [exists |-> FALSE, size |-> 0, fs |-> "", fsSize |-> 0, mkfsRuns |-> 0]
FreeLoop == [busy |-> FALSE, id |-> "", live |-> FALSE, capacity |-> 0, autoclear |-> FALSE]

VARIABLES images, loops, mounts, poolFree, last, rt, calls
vars == <<images, loops, mounts, poolFree, last, rt, calls>>

host == [images |-> images, loops |-> loops, mounts |-> mounts, free |-> poolFree]
\* The host with f MiB left in the filesystem of the images directory: the
\* free space is set by the other users of that filesystem, at any time.
hostWith(f) == [host EXCEPT !.free = f]

\* Result of an engine call: error, host state after the call, returned value.
R(e, h, v) == [err |-> e, h |-> h, val |-> v]

Min(S) == CHOOSE x \in S : \A y \in S : x <= y

\* ------------------------------------------------- image controller (engine)
isFileExists(h, id) == h.images[id].exists

\* truncate -s sizeBytes filename
truncate(h, id, sizeBytes) ==
  R("nil",
    [h EXCEPT !.images[id] =
        IF @.exists THEN [@ EXCEPT !.size = sizeBytes]
        ELSE [exists |-> TRUE, size |-> sizeBytes, fs |-> "", fsSize |-> 0,
              mkfsRuns |-> 0]],
    0)

Create(h, volumeId, sizeBytes) ==
  IF volumeId = "" THEN R("error", h, 0)
  ELSE IF sizeBytes = 0 THEN R("error", h, 0)
  ELSE IF isFileExists(h, volumeId) THEN R("nil", h, 0)
  ELSE LET t == truncate(h, volumeId, sizeBytes)
       IN IF t.err # "nil" THEN R("error", t.h, 0) ELSE R("nil", t.h, 0)

\* How far a truncate -s N f has got when it ends with an error, killed with
\* the cancelled context or failed: f not yet opened, f created by open(2)
\* with O_CREAT (length 0), or f already sized by ftruncate(2).
TruncateProgress == {"none", "created", "sized"}

truncateInterrupted(h, id, sizeBytes, progress) ==
  R("error",
    IF progress = "none" THEN h
    ELSE [h EXCEPT !.images[id] =
            LET length == IF progress = "sized" THEN sizeBytes ELSE 0
            IN IF @.exists
               THEN [@ EXCEPT !.size = IF progress = "sized" THEN sizeBytes ELSE @]
               ELSE [exists |-> TRUE, size |-> length, fs |-> "", fsSize |-> 0,
                     mkfsRuns |-> 0]],
    0)

\* Create whose truncate ends with an error.
CreateInterrupted(h, volumeId, sizeBytes, progress) ==
  IF volumeId = "" THEN R("error", h, 0)
  ELSE IF sizeBytes = 0 THEN R("error", h, 0)
  ELSE IF isFileExists(h, volumeId) THEN R("nil", h, 0)
  ELSE LET t == truncateInterrupted(h, volumeId, sizeBytes, progress)
       IN IF t.err # "nil" THEN R("error", t.h, 0) ELSE R("nil", t.h, 0)

\* Delete that reports an absent image as a failure.
Delete_absentFails(h, volumeId) ==
  IF volumeId = "" THEN R("error", h, 0)
  ELSE IF ~isFileExists(h, volumeId) THEN R("error", h, 0)
  ELSE R("nil",
         [h EXCEPT !.images[volumeId] = NoImage,
                   !.loops = [d \in Devices |->
                                IF @[d].busy /\ @[d].id = volumeId
                                THEN [@[d] EXCEPT !.live = FALSE] ELSE @[d]]],
         0)

\* rm -f filename: the loop devices bound to the file keep the unlinked inode.
Delete(h, volumeId) ==
  IF volumeId = "" THEN R("error", h, 0)
  ELSE IF ~isFileExists(h, volumeId) THEN R("nil", h, 0)
  ELSE R("nil",
         [h EXCEPT !.images[volumeId] = NoImage,
                   !.loops = [d \in Devices |->
                                IF @[d].busy /\ @[d].id = volumeId
                                THEN [@[d] EXCEPT !.live = FALSE] ELSE @[d]]],
         0)

\* statfs(path): the two kinds of counters read from the filesystem at path.
GetVolumeStats(h, path) ==
  IF path = EmptyPath THEN R("error", h, << >>)
  ELSE R("nil", h, <<"BYTES", "INODES">>)

GetCapacity(h) == R("nil", h, h.free)

GetVolumeSize(h, volumeId) ==
  IF volumeId = "" THEN R("error", h, 0)
  ELSE IF ~isFileExists(h, volumeId) THEN R("ErrorVolumeNotFound", h, 0)
  ELSE R("nil", h, h.images[volumeId].size)

\* ExpandVolumeSize that truncates whenever the sizes differ.
ExpandVolumeSize_shrinks(h, volumeId, newSizeBytes) ==
  IF volumeId = "" THEN R("error", h, 0)
  ELSE IF newSizeBytes <= 0 THEN R("error", h, 0)
  ELSE IF ~isFileExists(h, volumeId) THEN R("ErrorVolumeNotFound", h, 0)
  ELSE LET currentSize == GetVolumeSize(h, volumeId)
           available == GetCapacity(h)
           addSize == newSizeBytes - currentSize.val
       IN IF currentSize.err # "nil" THEN R("error", h, 0)
          ELSE IF available.err # "nil" THEN R("error", h, 0)
          ELSE IF addSize >= available.val THEN R("error", h, 0)
          ELSE IF addSize # 0 THEN truncate(h, volumeId, newSizeBytes)
          ELSE R("nil", h, 0)

\* ExpandVolumeSize that lets the image grow by exactly the free space.
ExpandVolumeSize_fillsPool(h, volumeId, newSizeBytes) ==
  IF volumeId = "" THEN R("error", h, 0)
  ELSE IF newSizeBytes <= 0 THEN R("error", h, 0)
  ELSE IF ~isFileExists(h, volumeId) THEN R("ErrorVolumeNotFound", h, 0)
  ELSE LET currentSize == GetVolumeSize(h, volumeId)
           available == GetCapacity(h)
           addSize == newSizeBytes - currentSize.val
       IN IF currentSize.err # "nil" THEN R("error", h, 0)
          ELSE IF available.err # "nil" THEN R("error", h, 0)
          ELSE IF addSize > available.val THEN R("error", h, 0)
          ELSE IF addSize > 0 THEN truncate(h, volumeId, newSizeBytes)
          ELSE R("nil", h, 0)

ExpandVolumeSize(h, volumeId, newSizeBytes) ==
  IF volumeId = "" THEN R("error", h, 0)
  ELSE IF newSizeBytes <= 0 THEN R("error", h, 0)
  ELSE IF ~isFileExists(h, volumeId) THEN R("ErrorVolumeNotFound", h, 0)
  ELSE LET currentSize == GetVolumeSize(h, volumeId)
           available == GetCapacity(h)
           addSize == newSizeBytes - currentSize.val
       IN IF currentSize.err # "nil" THEN R("error", h, 0)
          ELSE IF available.err # "nil" THEN R("error", h, 0)
          ELSE IF addSize >= available.val THEN R("error", h, 0)
          ELSE IF addSize > 0 THEN truncate(h, volumeId, newSizeBytes)
          ELSE R("nil", h, 0)

\* The devices losetup finds by the path of the image of volumeId.
AssociatedDevices(h, volumeId) ==
  {d \in Devices : h.loops[d].busy /\ h.loops[d].live /\ h.loops[d].id = volumeId}

\* GetDeviceByVolumeId that never finds a device bound to the image.
GetDeviceByVolumeId_findsNone(h, volumeId) ==
  IF volumeId = "" THEN R("error", h, NoDev)
  ELSE IF ~isFileExists(h, volumeId) THEN R("ErrorVolumeNotFound", h, NoDev)
  ELSE R("nil", h, NoDev)

GetDeviceByVolumeId(h, volumeId) ==
  IF volumeId = "" THEN R("error", h, NoDev)
  ELSE IF ~isFileExists(h, volumeId) THEN R("ErrorVolumeNotFound", h, NoDev)
  ELSE LET out == AssociatedDevices(h, volumeId)
       IN IF out = {} THEN R("nil", h, NoDev) ELSE R("nil", h, Min(out))

\* losetup --find --show filename: binds the first unused device to the image
losetupFind(h, volumeId) ==
  LET free == {d \in Devices : ~h.loops[d].busy}
  IN IF ~isFileExists(h, volumeId) THEN R("error", h, NoDev)
     ELSE IF free = {} THEN R("error", h, NoDev)
     ELSE R("nil",
            [h EXCEPT !.loops[Min(free)] =
                [busy |-> TRUE, id |-> volumeId, live |-> TRUE,
                 capacity |-> h.images[volumeId].size, autoclear |-> FALSE]],
            Min(free))

\* AttachDevice that binds a new device without looking for an existing one.
AttachDevice_noLookup(h, volumeId) ==
  IF volumeId = "" THEN R("error", h, NoDev)
  ELSE IF ~isFileExists(h, volumeId) THEN R("ErrorVolumeNotFound", h, NoDev)
  ELSE LET l == losetupFind(h, volumeId)
       IN IF l.err # "nil" THEN R("error", h, NoDev)
          ELSE R("nil", l.h, l.val)

AttachDevice(h, volumeId) ==
  IF volumeId = "" THEN R("error", h, NoDev)
  ELSE IF ~isFileExists(h, volumeId) THEN R("ErrorVolumeNotFound", h, NoDev)
  ELSE LET dev == GetDeviceByVolumeId(h, volumeId)
           l == losetupFind(h, volumeId)
       IN IF dev.err # "nil" THEN R("error", h, NoDev)
          ELSE IF dev.val # NoDev THEN R("nil", h, dev.val)
          ELSE IF l.err # "nil" THEN R("error", h, NoDev)
          ELSE R("nil", l.h, l.val)

\* A mount (of any kind) of the filesystem on device d keeps d open.
InUse(h, d) ==
  \E p \in Paths : \E i \in 1 .. Len(h.mounts[p]) : h.mounts[p][i].dev = d

\* The devices losetup --detach-all goes through: all used devices.
UsedDevices(h) == {d \in Devices : h.loops[d].busy}

DetachDevice(h, volumeId) ==
  IF volumeId = "" THEN R("error", h, 0)
  ELSE IF ~isFileExists(h, volumeId) THEN R("ErrorVolumeNotFound", h, 0)
  ELSE R("nil",
         [h EXCEPT !.loops = [d \in Devices |->
                                IF d \in UsedDevices(h)
                                THEN IF InUse(h, d)
                                     THEN [@[d] EXCEPT !.autoclear = TRUE]
                                     ELSE FreeLoop
                                ELSE @[d]]],
         0)

\* blkid -o value -s TYPE filename
getCurrentFilesystem(h, id) ==
  IF ~isFileExists(h, id) THEN R("ErrorVolumeNotFound", h, "")
  ELSE R("nil", h, h.images[id].fs)

\* mkfs.ext4 filename
mkfs(h, id, fsType) ==
  IF h.images[id].size = 0 THEN R("error", h, 0)
  ELSE
  R("nil",
    [h EXCEPT !.images[id].fs = fsType,
              !.images[id].fsSize = h.images[id].size,
              !.images[id].mkfsRuns = @ + 1],
    0)

\* FormatIfNot that runs mkfs without asking for the current filesystem.
FormatIfNot_always(h, volumeId, fsType) ==
  IF volumeId = "" THEN R("error", h, 0)
  ELSE IF fsType # "ext4" THEN R("error", h, 0)
  ELSE IF ~isFileExists(h, volumeId) THEN R("ErrorVolumeNotFound", h, 0)
  ELSE LET m == mkfs(h, volumeId, fsType)
       IN IF m.err # "nil" THEN R("error", m.h, 0) ELSE R("nil", m.h, 0)

FormatIfNot(h, volumeId, fsType) ==
  IF volumeId = "" THEN R("error", h, 0)
  ELSE IF fsType # "ext4" THEN R("error", h, 0)
  ELSE IF ~isFileExists(h, volumeId) THEN R("ErrorVolumeNotFound", h, 0)
  ELSE LET currentFs == getCurrentFilesystem(h, volumeId)
           m == mkfs(h, volumeId, fsType)
       IN IF currentFs.err # "nil" THEN R("error", h, 0)
          ELSE IF currentFs.val = fsType THEN R("nil", h, 0)
          ELSE IF m.err # "nil" THEN R("error", m.h, 0)
          ELSE R("nil", m.h, 0)

\* losetup --set-capacity device
expandLoopDevice(h, device) ==
  R("nil",
    [h EXCEPT !.loops[device].capacity =
        IF h.loops[device].live THEN h.images[h.loops[device].id].size ELSE @],
    0)

\* resize2fs filename
resizeFs(h, id) ==
  IF ~isFileExists(h, id) THEN R("ErrorVolumeNotFound", h, 0)
  ELSE IF h.images[id].fs # "ext4" THEN R("error", h, 0)
  ELSE R("nil", [h EXCEPT !.images[id].fsSize = h.images[id].size], 0)

ResizeDeviceFileSystem(h, volumeId) ==
  IF volumeId = "" THEN R("error", h, 0)
  ELSE IF ~isFileExists(h, volumeId) THEN R("ErrorVolumeNotFound", h, 0)
  ELSE LET dev == GetDeviceByVolumeId(h, volumeId)
       IN IF dev.err # "nil" THEN R("error", h, 0)
          ELSE IF dev.val = NoDev THEN R("ErrorVolumeNotFound", h, 0)
          ELSE LET e == expandLoopDevice(h, dev.val)
                   f == resizeFs(e.h, volumeId)
               IN IF e.err # "nil" THEN R("error", e.h, 0)
                  ELSE IF f.err # "nil" THEN R("error", f.h, 0)
                  ELSE R("nil", f.h, 0)

\* ------------------------------------------------------------- mount manager
Top(stack) == stack[Len(stack)]
Pop(stack) == SubSeq(stack, 1, Len(stack) - 1)

DevSource(dev) == [kind |-> "dev", dev |-> dev, path |-> EmptyPath]
PathSource(path) == [kind |-> "path", dev |-> NoDev, path |-> path]
IsEmptySource(source) ==
  IF source.kind = "dev" THEN source.dev = NoDev ELSE source.path = EmptyPath

\* IsMounted that never finds a mount at the target.
IsMounted_findsNothing(h, target) ==
  IF target = EmptyPath THEN R("error", h, FALSE)
  ELSE R("nil", h, FALSE)

\* IsMounted that does not look at the propagation of the entries.
IsMounted_ignoresPropagation(h, target) ==
  IF target = EmptyPath THEN R("error", h, FALSE)
  ELSE LET fileSystems == h.mounts[target]
       IN R("nil", h, fileSystems # <<>>)

\* findmnt -M target, then the propagation check over the returned entries
IsMounted(h, target) ==
  IF target = EmptyPath THEN R("error", h, FALSE)
  ELSE LET fileSystems == h.mounts[target]
       IN IF \E i \in 1 .. Len(fileSystems) : fileSystems[i].prop # "shared"
          THEN R("error", h, TRUE)
          ELSE R("nil", h, fileSystems # <<>>)

\* mount -o options source target. A bind mount stacks on whatever is mounted
\* at the target; the mount of a device fails when the device has no
\* filesystem and when the filesystem of that very device is already what is
\* mounted at the target (EBUSY, mount(2)).
mountCmd(h, source, target, options) ==
  IF options.bind
  THEN LET under == h.mounts[source.path]
           fsdev == IF under = <<>> THEN HostFs ELSE Top(under).dev
       IN R("nil",
            [h EXCEPT !.mounts[target] =
                Append(@, [dev |-> fsdev, bind |-> TRUE, ro |-> options.ro,
                           prop |-> "shared"])],
            0)
  ELSE IF ~h.loops[source.dev].busy THEN R("error", h, 0)
  ELSE IF h.loops[source.dev].live /\ h.images[h.loops[source.dev].id].fs = ""
       THEN R("error", h, 0)
  ELSE IF /\ h.mounts[target] # << >>
          /\ ~Top(h.mounts[target]).bind
          /\ Top(h.mounts[target]).dev = source.dev
       THEN R("error", h, 0)
  ELSE R("nil",
         [h EXCEPT !.mounts[target] =
             Append(@, [dev |-> source.dev, bind |-> FALSE, ro |-> options.ro,
                        prop |-> "shared"])],
         0)

\* Mount that does not look whether the target is already mounted.
Mount_noCheck(h, source, target, options) ==
  IF IsEmptySource(source) THEN R("error", h, 0)
  ELSE IF target = EmptyPath THEN R("error", h, 0)
  ELSE LET m == mountCmd(h, source, target, options)
       IN IF m.err # "nil" THEN R("error", m.h, 0) ELSE R("nil", m.h, 0)

Mount(h, source, target, options) ==
  IF IsEmptySource(source) THEN R("error", h, 0)
  ELSE IF target = EmptyPath THEN R("error", h, 0)
  ELSE LET isMounted == IsMounted(h, target)
       IN IF isMounted.err # "nil" THEN R("error", h, 0)
          ELSE IF isMounted.val THEN R("nil", h, 0)
          ELSE LET m == mountCmd(h, source, target, options)
               IN IF m.err # "nil" THEN R("error", m.h, 0) ELSE R("nil", m.h, 0)

\* umount target
umountCmd(h, target) ==
  LET dev == Top(h.mounts[target]).dev
      u == [h EXCEPT !.mounts[target] = Pop(@)]
  IN IF dev \in Devices /\ u.loops[dev].autoclear /\ ~InUse(u, dev)
     THEN R("nil", [u EXCEPT !.loops[dev] = FreeLoop], 0)
     ELSE R("nil", u, 0)

\* Unmount that runs umount without looking whether the target is mounted:
\* umount fails on a path that is not a mount point.
Unmount_noCheck(h, target) ==
  IF target = EmptyPath THEN R("error", h, 0)
  ELSE IF h.mounts[target] = << >> THEN R("error", h, 0)
  ELSE LET u == umountCmd(h, target)
       IN IF u.err # "nil" THEN R("error", u.h, 0) ELSE R("nil", u.h, 0)

Unmount(h, target) ==
  IF target = EmptyPath THEN R("error", h, 0)
  ELSE LET isMounted == IsMounted(h, target)
       IN IF isMounted.err # "nil" THEN R("error", h, 0)
          ELSE IF ~isMounted.val THEN R("nil", h, 0)
          ELSE LET u == umountCmd(h, target)
               IN IF u.err # "nil" THEN R("error", u.h, 0) ELSE R("nil", u.h, 0)

\* -------------------------------------------------------------- RPC facade
NoRet == [capacity |-> 0, node |-> "", nodeExpansionRequired |-> FALSE, usage |-> << >>]
Resp(code, h, ret) == [code |-> code, h |-> h, ret |-> ret]

NilRange == [isNil |-> TRUE, required |-> 0, limit |-> 0]
Range(required, limit) == [isNil |-> FALSE, required |-> required, limit |-> limit]

\* calculateVolumeSize that prefers required to limit when both are set.
calculateVolumeSize_requiredWins(capRange) ==
  IF capRange.isNil THEN [err |-> FALSE, val |-> defaultVolumeSize]
  ELSE LET required == capRange.required
           requiredSet == 0 < required
           limit == capRange.limit
           limitSet == 0 < limit
       IN IF ~requiredSet /\ ~limitSet THEN [err |-> FALSE, val |-> defaultVolumeSize]
          ELSE IF requiredSet /\ limitSet /\ limit < required THEN [err |-> TRUE, val |-> 0]
          ELSE IF requiredSet /\ required < minimumVolumeSize THEN [err |-> TRUE, val |-> 0]
          ELSE IF limitSet /\ limit < minimumVolumeSize THEN [err |-> TRUE, val |-> 0]
          ELSE IF requiredSet /\ required > maximumVolumeSize THEN [err |-> TRUE, val |-> 0]
          ELSE IF limitSet /\ limit > maximumVolumeSize THEN [err |-> TRUE, val |-> 0]
          ELSE IF requiredSet /\ limitSet /\ required = limit THEN [err |-> FALSE, val |-> limit]
          ELSE IF requiredSet THEN [err |-> FALSE, val |-> required]
          ELSE IF limitSet THEN [err |-> FALSE, val |-> limit]
          ELSE [err |-> FALSE, val |-> defaultVolumeSize]

calculateVolumeSize(capRange) ==
  IF capRange.isNil THEN [err |-> FALSE, val |-> defaultVolumeSize]
  ELSE LET required == capRange.required
           requiredSet == 0 < required
           limit == capRange.limit
           limitSet == 0 < limit
       IN IF ~requiredSet /\ ~limitSet THEN [err |-> FALSE, val |-> defaultVolumeSize]
          ELSE IF requiredSet /\ limitSet /\ limit < required THEN [err |-> TRUE, val |-> 0]
          ELSE IF requiredSet /\ required < minimumVolumeSize THEN [err |-> TRUE, val |-> 0]
          ELSE IF limitSet /\ limit < minimumVolumeSize THEN [err |-> TRUE, val |-> 0]
          ELSE IF requiredSet /\ required > maximumVolumeSize THEN [err |-> TRUE, val |-> 0]
          ELSE IF limitSet /\ limit > maximumVolumeSize THEN [err |-> TRUE, val |-> 0]
          ELSE IF requiredSet /\ limitSet /\ required = limit THEN [err |-> FALSE, val |-> limit]
          ELSE IF limitSet THEN [err |-> FALSE, val |-> limit]
          ELSE IF requiredSet THEN [err |-> FALSE, val |-> required]
          ELSE [err |-> FALSE, val |-> defaultVolumeSize]

\* NodeStageVolume that stages whatever the access type of the capability.
NodeStageVolume_anyAccessType(h, request) ==
  LET volumeId == request.volumeId
      fsType == IF request.fsType # "" THEN request.fsType ELSE "ext4"
      stagingTargetPath == request.stagingTargetPath
  IN IF volumeId = "" THEN Resp("InvalidArgument", h, NoRet)
     ELSE IF stagingTargetPath = EmptyPath THEN Resp("InvalidArgument", h, NoRet)
     ELSE IF request.capability = "nil" THEN Resp("InvalidArgument", h, NoRet)
     ELSE LET f == FormatIfNot(h, volumeId, fsType)
              a == AttachDevice(f.h, volumeId)
              m == Mount(a.h, DevSource(a.val), stagingTargetPath,
                         [bind |-> FALSE, ro |-> FALSE])
          IN IF f.err # "nil" THEN Resp("Internal", f.h, NoRet)
             ELSE IF a.err # "nil" THEN Resp("Internal", a.h, NoRet)
             ELSE IF m.err # "nil" THEN Resp("Internal", m.h, NoRet)
             ELSE Resp("OK", m.h, NoRet)

NodeStageVolume(h, request) ==
  LET volumeId == request.volumeId
      fsType == IF request.fsType # "" THEN request.fsType ELSE "ext4"
      stagingTargetPath == request.stagingTargetPath
  IN IF volumeId = "" THEN Resp("InvalidArgument", h, NoRet)
     ELSE IF stagingTargetPath = EmptyPath THEN Resp("InvalidArgument", h, NoRet)
     ELSE IF request.capability = "nil" THEN Resp("InvalidArgument", h, NoRet)
     ELSE IF request.capability # "mount" THEN Resp("Unimplemented", h, NoRet)
     ELSE LET f == FormatIfNot(h, volumeId, fsType)
              a == AttachDevice(f.h, volumeId)
              m == Mount(a.h, DevSource(a.val), stagingTargetPath,
                         [bind |-> FALSE, ro |-> FALSE])
          IN IF f.err # "nil" THEN Resp("Internal", f.h, NoRet)
             ELSE IF a.err # "nil" THEN Resp("Internal", a.h, NoRet)
             ELSE IF m.err # "nil" THEN Resp("Internal", m.h, NoRet)
             ELSE Resp("OK", m.h, NoRet)

\* NodeStageVolume whose context is cancelled when `steps` of its three steps
\* (format, attach, mount) are done: the command of the next step is killed
\* before it has changed anything, and the handler answers its error with
\* Internal. With all three steps done the handler answers as usual.
NodeStageVolumeCancelled(h, request, steps) ==
  LET volumeId == request.volumeId
      fsType == IF request.fsType # "" THEN request.fsType ELSE "ext4"
      stagingTargetPath == request.stagingTargetPath
  IN IF volumeId = "" THEN Resp("InvalidArgument", h, NoRet)
     ELSE IF stagingTargetPath = EmptyPath THEN Resp("InvalidArgument", h, NoRet)
     ELSE IF request.capability = "nil" THEN Resp("InvalidArgument", h, NoRet)
     ELSE IF request.capability # "mount" THEN Resp("Unimplemented", h, NoRet)
     ELSE LET f == FormatIfNot(h, volumeId, fsType)
              a == AttachDevice(f.h, volumeId)
              m == Mount(a.h, DevSource(a.val), stagingTargetPath,
                         [bind |-> FALSE, ro |-> FALSE])
          IN IF steps = 0 THEN Resp("Internal", h, NoRet)
             ELSE IF f.err # "nil" THEN Resp("Internal", f.h, NoRet)
             ELSE IF steps = 1 THEN Resp("Internal", f.h, NoRet)
             ELSE IF a.err # "nil" THEN Resp("Internal", a.h, NoRet)
             ELSE IF steps = 2 THEN Resp("Internal", a.h, NoRet)
             ELSE IF m.err # "nil" THEN Resp("Internal", m.h, NoRet)
             ELSE Resp("OK", m.h, NoRet)

\* NodeUnstageVolume that unmounts but leaves the loop device attached.
NodeUnstageVolume_noDetach(h, request) ==
  LET volumeId == request.volumeId
  IN IF volumeId = "" THEN Resp("InvalidArgument", h, NoRet)
     ELSE IF request.stagingTargetPath = EmptyPath THEN Resp("InvalidArgument", h, NoRet)
     ELSE LET u == Unmount(h, request.stagingTargetPath)
          IN IF u.err # "nil" THEN Resp("Internal", u.h, NoRet)
             ELSE Resp("OK", u.h, NoRet)

\* NodeUnstageVolume that detaches the loop device before it unmounts.
NodeUnstageVolume_detachFirst(h, request) ==
  LET volumeId == request.volumeId
  IN IF volumeId = "" THEN Resp("InvalidArgument", h, NoRet)
     ELSE IF request.stagingTargetPath = EmptyPath THEN Resp("InvalidArgument", h, NoRet)
     ELSE LET d == DetachDevice(h, volumeId)
              u == Unmount(d.h, request.stagingTargetPath)
          IN IF d.err # "nil" THEN Resp("Internal", d.h, NoRet)
             ELSE IF u.err # "nil" THEN Resp("Internal", u.h, NoRet)
             ELSE Resp("OK", u.h, NoRet)

NodeUnstageVolume(h, request) ==
  LET volumeId == request.volumeId
  IN IF volumeId = "" THEN Resp("InvalidArgument", h, NoRet)
     ELSE IF request.stagingTargetPath = EmptyPath THEN Resp("InvalidArgument", h, NoRet)
     ELSE LET u == Unmount(h, request.stagingTargetPath)
              d == DetachDevice(u.h, volumeId)
          IN IF u.err # "nil" THEN Resp("Internal", u.h, NoRet)
             ELSE IF d.err # "nil" THEN Resp("Internal", d.h, NoRet)
             ELSE Resp("OK", d.h, NoRet)

\* NodePublishVolume that mounts before it looks at the capability.
NodePublishVolume_mountsFirst(h, request) ==
  LET volumeId == request.volumeId
      source == request.stagingTargetPath
      target == request.targetPath
      mountOptions == [bind |-> TRUE, ro |-> request.readonly]
  IN IF volumeId = "" THEN Resp("InvalidArgument", h, NoRet)
     ELSE IF request.stagingTargetPath = EmptyPath THEN Resp("InvalidArgument", h, NoRet)
     ELSE IF request.targetPath = EmptyPath THEN Resp("InvalidArgument", h, NoRet)
     ELSE LET m == Mount(h, PathSource(source), target, mountOptions)
          IN IF request.capability = "nil" THEN Resp("InvalidArgument", m.h, NoRet)
             ELSE IF request.capability # "mount" THEN Resp("InvalidArgument", m.h, NoRet)
             ELSE IF m.err # "nil" THEN Resp("Internal", m.h, NoRet)
             ELSE Resp("OK", m.h, NoRet)

NodePublishVolume(h, request) ==
  LET volumeId == request.volumeId
      source == request.stagingTargetPath
      target == request.targetPath
      mountOptions == [bind |-> TRUE, ro |-> request.readonly]
  IN IF volumeId = "" THEN Resp("InvalidArgument", h, NoRet)
     ELSE IF request.stagingTargetPath = EmptyPath THEN Resp("InvalidArgument", h, NoRet)
     ELSE IF request.targetPath = EmptyPath THEN Resp("InvalidArgument", h, NoRet)
     ELSE IF request.capability = "nil" THEN Resp("InvalidArgument", h, NoRet)
     ELSE IF request.capability # "mount" THEN Resp("InvalidArgument", h, NoRet)
     ELSE LET m == Mount(h, PathSource(source), target, mountOptions)
          IN IF m.err # "nil" THEN Resp("Internal", m.h, NoRet)
             ELSE Resp("OK", m.h, NoRet)

NodeUnpublishVolume(h, request) ==
  LET volumeId == request.volumeId
      target == request.targetPath
  IN IF volumeId = "" THEN Resp("InvalidArgument", h, NoRet)
     ELSE IF request.targetPath = EmptyPath THEN Resp("InvalidArgument", h, NoRet)
     ELSE LET u == Unmount(h, target)
          IN IF u.err # "nil" THEN Resp("Internal", u.h, NoRet)
             ELSE Resp("OK", u.h, NoRet)

NodeExpandVolume(h, request) ==
  LET volumeId == request.volumeId
      size == calculateVolumeSize(request.capacityRange)
  IN IF volumeId = "" THEN Resp("InvalidArgument", h, NoRet)
     ELSE IF request.capability = "nil" THEN Resp("InvalidArgument", h, NoRet)
     ELSE IF request.capability # "mount" THEN Resp("Unimplemented", h, NoRet)
     ELSE IF size.err THEN Resp("OutOfRange", h, NoRet)
     ELSE LET e == ExpandVolumeSize(h, volumeId, size.val)
              r == ResizeDeviceFileSystem(e.h, volumeId)
          IN IF e.err = "ErrorVolumeNotFound" THEN Resp("NotFound", e.h, NoRet)
             ELSE IF e.err # "nil" THEN Resp("Internal", e.h, NoRet)
             ELSE IF r.err # "nil" THEN Resp("Internal", r.h, NoRet)
             ELSE Resp("OK", r.h, [NoRet EXCEPT !.capacity = size.val])

\* NodeGetVolumeStats that reads the counters without asking for the mount.
NodeGetVolumeStats_noMountCheck(h, request) ==
  LET volumeId == request.volumeId
      path == request.volumePath
  IN IF volumeId = "" THEN Resp("InvalidArgument", h, NoRet)
     ELSE IF path = EmptyPath THEN Resp("InvalidArgument", h, NoRet)
     ELSE LET stats == GetVolumeStats(h, path)
          IN IF stats.err # "nil" THEN Resp("Internal", stats.h, NoRet)
             ELSE Resp("OK", stats.h, [NoRet EXCEPT !.usage = stats.val])

NodeGetVolumeStats(h, request) ==
  LET volumeId == request.volumeId
      path == request.volumePath
  IN IF volumeId = "" THEN Resp("InvalidArgument", h, NoRet)
     ELSE IF path = EmptyPath THEN Resp("InvalidArgument", h, NoRet)
     ELSE LET isMounted == IsMounted(h, path)
              stats == GetVolumeStats(isMounted.h, path)
          IN IF isMounted.err # "nil" THEN Resp("Internal", isMounted.h, NoRet)
             ELSE IF ~isMounted.val THEN Resp("NotFound", isMounted.h, NoRet)
             ELSE IF stats.err # "nil" THEN Resp("Internal", stats.h, NoRet)
             ELSE Resp("OK", stats.h, [NoRet EXCEPT !.usage = stats.val])

SingleNodeWriter == "SINGLE_NODE_WRITER"
MountCap == [mode |-> SingleNodeWriter, type |-> "mount"]

CreateVolume(h, request) ==
  LET volumeId == request.name
      caps == request.volumeCapabilities
      size == calculateVolumeSize(request.capacityRange)
  IN IF volumeId = "" THEN Resp("InvalidArgument", h, NoRet)
     ELSE IF Len(caps) = 0 THEN Resp("InvalidArgument", h, NoRet)
     ELSE IF \E i \in 1 .. Len(caps) :
                caps[i].mode # SingleNodeWriter \/ caps[i].type # "mount"
          THEN Resp("InvalidArgument", h, NoRet)
     \* request.AccessibilityRequirements is dereferenced without a nil check
     ELSE IF request.topology = "nil" THEN Resp("panic", h, NoRet)
     ELSE IF request.topology = "empty" THEN Resp("InvalidArgument", h, NoRet)
     ELSE IF request.topology = "nokey" THEN Resp("InvalidArgument", h, NoRet)
     ELSE IF size.err THEN Resp("OutOfRange", h, NoRet)
     ELSE LET nodeName == request.topology
              c == Create(h, volumeId, size.val)
          IN IF c.err = "ErrorVolumeAlreadyExists"
             THEN Resp("OK", c.h, [NoRet EXCEPT !.capacity = size.val])
             ELSE IF c.err # "nil" THEN Resp("Internal", c.h, NoRet)
             ELSE Resp("OK", c.h, [NoRet EXCEPT !.capacity = size.val, !.node = nodeName])

DeleteVolume(h, request) ==
  LET volumeId == request.volumeId
  IN IF volumeId = "" THEN Resp("InvalidArgument", h, NoRet)
     ELSE LET d == Delete(h, volumeId)
          IN IF d.err = "ErrorVolumeNotFound" THEN Resp("OK", d.h, NoRet)
             ELSE IF d.err # "nil" THEN Resp("Internal", d.h, NoRet)
             ELSE Resp("OK", d.h, NoRet)

\* ControllerExpandVolume that grows the image itself.
ControllerExpandVolume_grows(h, request) ==
  LET volumeId == request.volumeId
      size == calculateVolumeSize(request.capacityRange)
  IN IF volumeId = "" THEN Resp("InvalidArgument", h, NoRet)
     ELSE IF size.err THEN Resp("OutOfRange", h, NoRet)
     ELSE LET e == ExpandVolumeSize(h, volumeId, size.val)
          IN IF e.err = "ErrorVolumeNotFound" THEN Resp("NotFound", e.h, NoRet)
             ELSE IF e.err # "nil" THEN Resp("Internal", e.h, NoRet)
             ELSE Resp("OK", e.h, [NoRet EXCEPT !.capacity = size.val,
                                               !.nodeExpansionRequired = TRUE])

ControllerExpandVolume(h, request) ==
  LET volumeId == request.volumeId
      size == calculateVolumeSize(request.capacityRange)
  IN IF volumeId = "" THEN Resp("InvalidArgument", h, NoRet)
     ELSE IF size.err THEN Resp("OutOfRange", h, NoRet)
     ELSE Resp("OK", h, [NoRet EXCEPT !.capacity = size.val,
                                      !.nodeExpansionRequired = TRUE])

\* ------------------------------------------------------- requests (inputs)
\* Every request set is drawn for a set I of volume ids. XRequests(I) holds the
\* requests of RPC X that pass the handler's validation; XRejects(I) holds the
\* requests with one field missing, unsupported or out of range, which the
\* handler answers before it touches the host.
PoolFreeValues == {0, 1 * Gb, 4 * Gb}
CapRanges == {NilRange, Range(1 * Gb, 0), Range(2 * Gb, 0), Range(0, 2 * Gb)}
BadRanges ==
  {Range(Gb \div 2, 0), Range(2 * Gb, 1 * Gb), Range(maximumVolumeSize + 1, 0)}

CreateReq(name, caps, topology, range) ==
  [name |-> name, volumeCapabilities |-> caps, topology |-> topology,
   capacityRange |-> range]
CreateRequests(I) ==
  {CreateReq(id, <<MountCap>>, nodeId, cr) : id \in I, cr \in CapRanges}
  \cup {CreateReq(id, <<MountCap>>, "n2", NilRange) : id \in I}
CreateRejects(I) ==
  {CreateReq(id, <<MountCap>>, nodeId, cr) : id \in I, cr \in BadRanges}
  \cup {CreateReq("", <<MountCap>>, nodeId, NilRange)}
  \cup {CreateReq(id, caps, nodeId, NilRange) :
          id \in I,
          caps \in {<< >>, <<[mode |-> SingleNodeWriter, type |-> "block"]>>,
                    <<MountCap, [mode |-> "MULTI_NODE_MULTI_WRITER", type |-> "mount"]>>}}
  \cup {CreateReq(id, <<MountCap>>, t, NilRange) :
          id \in I, t \in {"nil", "empty", "nokey"}}

IdReq(id) == [volumeId |-> id]
DeleteRequests(I) == {IdReq(id) : id \in I}
DeleteRejects(I) == {IdReq("")}

ExpandReq(id, cap, range) == [volumeId |-> id, capability |-> cap, capacityRange |-> range]
ControllerExpandRequests(I) ==
  {ExpandReq(id, "mount", cr) : id \in I, cr \in CapRanges}
ControllerExpandRejects(I) ==
  {ExpandReq(id, "mount", cr) : id \in I, cr \in BadRanges}
  \cup {ExpandReq("", "mount", NilRange)}
NodeExpandRequests(I) == ControllerExpandRequests(I)
NodeExpandRejects(I) ==
  ControllerExpandRejects(I)
  \cup {ExpandReq(id, cap, NilRange) : id \in I, cap \in {"nil", "block"}}

StageReq(id, path, cap, fsType) ==
  [volumeId |-> id, stagingTargetPath |-> path, capability |-> cap, fsType |-> fsType]
StageRequests(I) ==
  {StageReq(id, StagingPath(id), "mount", fs) : id \in I, fs \in {"", "ext4"}}
StageRejects(I) ==
  {StageReq(id, StagingPath(id), "mount", "xfs") : id \in I}
  \cup {StageReq(id, StagingPath(id), cap, "") : id \in I, cap \in {"nil", "block"}}
  \cup {StageReq(id, EmptyPath, "mount", "") : id \in I}
  \cup {StageReq("", StagingPath("a"), "mount", "")}

UnstageReq(id, path) == [volumeId |-> id, stagingTargetPath |-> path]
UnstageRequests(I) == {UnstageReq(id, StagingPath(id)) : id \in I}
UnstageRejects(I) ==
  {UnstageReq(id, EmptyPath) : id \in I}
  \cup {UnstageReq("", StagingPath("a"))}

PublishReq(id, staging, target, ro, cap) ==
  [volumeId |-> id, stagingTargetPath |-> staging, targetPath |-> target,
   readonly |-> ro, capability |-> cap]
PublishRequests(I) ==
  {PublishReq(id, StagingPath(id), TargetPath(id, k), FALSE, "mount") :
      id \in I, k \in 1 .. NumTargets}
PublishRejects(I) ==
  {PublishReq(id, StagingPath(id), TargetPath(id, 1), FALSE, cap) :
      id \in I, cap \in {"nil", "block"}}
  \cup {PublishReq(id, EmptyPath, TargetPath(id, 1), FALSE, "mount") : id \in I}
  \cup {PublishReq(id, StagingPath(id), EmptyPath, FALSE, "mount") : id \in I}
  \cup {PublishReq("", StagingPath("a"), TargetPath("a", 1), FALSE, "mount")}

UnpublishReq(id, target) == [volumeId |-> id, targetPath |-> target]
UnpublishRequests(I) ==
  {UnpublishReq(id, TargetPath(id, k)) : id \in I, k \in 1 .. NumTargets}
UnpublishRejects(I) ==
  {UnpublishReq(id, EmptyPath) : id \in I}
  \cup {UnpublishReq("", TargetPath("a", 1))}

StatsReq(id, path) == [volumeId |-> id, volumePath |-> path]
StatsRequests(I) ==
  {StatsReq(id, StagingPath(id)) : id \in I}
  \cup {StatsReq(id, TargetPath(id, k)) : id \in I, k \in 1 .. NumTargets}
StatsRejects(I) ==
  {StatsReq(id, EmptyPath) : id \in I}
  \cup {StatsReq("", StagingPath("a"))}

\* The volumes the orchestrator drives in Spec.
Vols == {"a"}

\* ------------------------------------------------------------ state machine
NoTrip == [id |-> "", step |-> 0, target |-> EmptyPath]

Orphans(h) == {d \in Devices : h.loops[d].busy /\ ~h.loops[d].live}

\* The handlers the server runs at the same time, each in a goroutine of
\* its own: calls[g] is the call goroutine g is in and the step it is at.
NumGoroutines == 2
Goroutines == 1 .. NumGoroutines
Idle ==
  [op |-> "idle", pc |-> "done", volumeId |-> "", target |-> EmptyPath,
   dev |-> NoDev, size |-> 0, ro |-> FALSE]

Init ==
  /\ images = [id \in Ids |-> NoImage]
  /\ loops = [d \in Devices |-> FreeLoop]
  /\ mounts = [p \in Paths |-> << >>]
  /\ poolFree = 4 * Gb
  /\ last = [op |-> "init", id |-> "", code |-> "OK", ret |-> NoRet,
             changed |-> FALSE]
  /\ rt = NoTrip
  /\ calls = [g \in Goroutines |-> Idle]

RequestId(op, request) ==
  IF op = "CreateVolume" THEN request.name ELSE request.volumeId

\* Observer of the volume life cycle create, stage, publish, unpublish,
\* unstage, delete: rt.step counts the RPCs of that sequence that have been
\* completed successfully, back to back, for volume rt.id, the first of them
\* a CreateVolume issued while the image of rt.id was absent.
TripOps ==
  <<"CreateVolume", "NodeStageVolume", "NodePublishVolume",
    "NodeUnpublishVolume", "NodeUnstageVolume", "DeleteVolume">>

TripNext(h, op, request, r) ==
  IF r.code # "OK" THEN NoTrip
  ELSE IF op = "CreateVolume" /\ ~h.images[request.name].exists
  THEN [id |-> request.name, step |-> 1, target |-> EmptyPath]
  ELSE IF rt.step \in 1 .. 5 /\ op = TripOps[rt.step + 1] /\ RequestId(op, request) = rt.id
  THEN IF op = "NodePublishVolume"
       THEN [rt EXCEPT !.step = 3, !.target = request.targetPath]
       ELSE IF op = "NodeUnpublishVolume" /\ request.targetPath # rt.target THEN NoTrip
       ELSE [rt EXCEPT !.step = @ + 1]
  ELSE NoTrip

\* One completed RPC: the host is left as the handler left it.
Completed(op, request, r) ==
  /\ images' = r.h.images
  /\ loops' = r.h.loops
  /\ mounts' = r.h.mounts
  /\ poolFree' = r.h.free
  /\ last' = [op |-> op, id |-> RequestId(op, request), code |-> r.code,
              ret |-> r.ret, changed |-> r.h # host]
  /\ rt' = TripNext(host, op, request, r)
  /\ UNCHANGED calls

CreateVolumeRPC ==
  \E request \in CreateRequests(Vols) :
    Completed("CreateVolume", request, CreateVolume(host, request))

\* The number of loop devices left bound to unlinked images is capped.
DeleteVolumeRPC ==
  \E request \in DeleteRequests(Vols) :
    LET r == DeleteVolume(host, request)
    IN /\ Cardinality(Orphans(r.h)) <= MaxOrphans
       /\ Completed("DeleteVolume", request, r)

ControllerExpandVolumeRPC ==
  \E request \in ControllerExpandRequests(Vols) :
    Completed("ControllerExpandVolume", request, ControllerExpandVolume(host, request))

NodeStageVolumeRPC ==
  \E request \in StageRequests(Vols) :
    Completed("NodeStageVolume", request, NodeStageVolume(host, request))

NodeUnstageVolumeRPC ==
  \E request \in UnstageRequests(Vols) :
    Completed("NodeUnstageVolume", request, NodeUnstageVolume(host, request))

NodePublishVolumeRPC ==
  \E request \in PublishRequests(Vols) :
    Completed("NodePublishVolume", request, NodePublishVolume(host, request))

NodeUnpublishVolumeRPC ==
  \E request \in UnpublishRequests(Vols) :
    Completed("NodeUnpublishVolume", request, NodeUnpublishVolume(host, request))

NodeExpandVolumeRPC ==
  \E request \in NodeExpandRequests(Vols) :
    Completed("NodeExpandVolume", request, NodeExpandVolume(host, request))

\* The life cycle of a volume: the orchestrator issues the RPCs that change
\* images, loop devices and mounts one at a time, each with a request that
\* passes validation; the handlers leave the pool's free space as they found
\* it (the images are sparse), so poolFree keeps the value the pool started
\* with.
Next ==
  \/ CreateVolumeRPC
  \/ DeleteVolumeRPC
  \/ NodeStageVolumeRPC
  \/ NodeUnstageVolumeRPC
  \/ NodePublishVolumeRPC
  \/ NodeUnpublishVolumeRPC
  \/ NodeExpandVolumeRPC

Spec == Init /\ [][Next]_vars

\* ------------------------------------------------------ the pool under load
\* Other users of the images directory's filesystem change its free space.
PoolUsageChanges ==
  /\ \E f \in PoolFreeValues \ {poolFree} : poolFree' = f
  /\ last' = [op |-> "env", id |-> "", code |-> "OK", ret |-> NoRet,
              changed |-> TRUE]
  /\ UNCHANGED <<images, loops, mounts, rt, calls>>

NodeGetVolumeStatsRPC ==
  \E request \in StatsRequests(Vols) :
    Completed("NodeGetVolumeStats", request, NodeGetVolumeStats(host, request))

\* The RPCs that create, attach, size, grow, measure and remove a volume,
\* issued one at a time while the free space of the pool changes between them.
NextPool ==
  \/ CreateVolumeRPC
  \/ DeleteVolumeRPC
  \/ ControllerExpandVolumeRPC
  \/ NodeStageVolumeRPC
  \/ NodeUnstageVolumeRPC
  \/ NodeExpandVolumeRPC
  \/ NodeGetVolumeStatsRPC
  \/ PoolUsageChanges

SpecPool == Init /\ [][NextPool]_vars

\* ------------------------------------------------- capacity-range arithmetic
\* The byte counts probed in the two fields of a capacity range.
ProbeSizes ==
  {-1, 0, 1, minimumVolumeSize - 1, minimumVolumeSize, minimumVolumeSize + 1,
   2 * Gb, 3 * Gb, maximumVolumeSize - 1, maximumVolumeSize, maximumVolumeSize + 1}
ProbeRanges == {NilRange} \cup {Range(r, l) : r \in ProbeSizes, l \in ProbeSizes}

\* One evaluation of calculateVolumeSize: last keeps the range handed in, next
\* to the outcome (code OutOfRange for an error, the size in ret.capacity).
CalculateVolumeSizeCall ==
  /\ \E capRange \in ProbeRanges :
       LET size == calculateVolumeSize(capRange)
       IN last' = [op |-> "calculateVolumeSize", id |-> "",
                   code |-> IF size.err THEN "OutOfRange" ELSE "OK",
                   ret |-> [NoRet EXCEPT !.capacity = size.val],
                   changed |-> FALSE, range |-> capRange]
  /\ UNCHANGED <<images, loops, mounts, poolFree, rt, calls>>

NextCalc == CalculateVolumeSizeCall

SpecCalc == Init /\ [][NextCalc]_vars

\* ------------------------------------------------------- propagation drift
Propagations == {"shared", "private"}

\* mount --make-private / --make-shared path, run by the administrator or by
\* another agent on the host: the propagation of one mount-table entry changes.
PropagationChanges ==
  /\ \E p \in Paths : \E i \in 1 .. Len(mounts[p]) :
       \E prop \in Propagations \ {mounts[p][i].prop} :
         mounts' = [mounts EXCEPT ![p][i].prop = prop]
  /\ last' = [op |-> "env", id |-> "", code |-> "OK", ret |-> NoRet,
              changed |-> TRUE]
  /\ UNCHANGED <<images, loops, poolFree, rt, calls>>

\* The life cycle of a volume and its statistics on a host where the
\* propagation of mounts is changed behind the plugin's back.
NextProp ==
  \/ CreateVolumeRPC
  \/ NodeStageVolumeRPC
  \/ NodeUnstageVolumeRPC
  \/ NodePublishVolumeRPC
  \/ NodeUnpublishVolumeRPC
  \/ NodeGetVolumeStatsRPC
  \/ PropagationChanges

SpecProp == Init /\ [][NextProp]_vars

\* ----------------------------------------------------- interrupted requests
\* A CreateVolume of an absent image whose truncate ends with an error.
CreateVolumeInterruptedRPC ==
  \E request \in CreateRequests(Vols) : \E progress \in TruncateProgress :
    LET size == calculateVolumeSize(request.capacityRange)
        c == CreateInterrupted(host, request.name, size.val, progress)
    IN /\ ~isFileExists(host, request.name)
       /\ c.err # "nil"
       /\ Completed("CreateVolume", request, Resp("Internal", c.h, NoRet))

\* A NodeStageVolume that is cancelled before its last step.
NodeStageVolumeCancelledRPC ==
  \E request \in StageRequests(Vols) : \E steps \in 0 .. 2 :
    Completed("NodeStageVolume (cancelled)", request,
              NodeStageVolumeCancelled(host, request, steps))

\* The orchestrator issues the cancelled NodeStageVolume again.
NodeStageVolumeRetryRPC ==
  \E request \in StageRequests(Vols) :
    /\ last.op = "NodeStageVolume (cancelled)"
    /\ last.id = request.volumeId
    /\ Completed("NodeStageVolume (retry)", request, NodeStageVolume(host, request))

\* Volumes are created, staged, grown, unstaged and deleted while requests
\* are cancelled or their commands fail part of the way.
NextFault ==
  \/ CreateVolumeRPC
  \/ DeleteVolumeRPC
  \/ NodeStageVolumeRPC
  \/ NodeUnstageVolumeRPC
  \/ NodeExpandVolumeRPC
  \/ CreateVolumeInterruptedRPC
  \/ NodeStageVolumeCancelledRPC
  \/ NodeStageVolumeRetryRPC

SpecFault == Init /\ [][NextFault]_vars

\* -------------------------------------------------------- rejected requests
\* The orchestrator (or a faulty client) sends requests with a field missing,
\* unsupported or out of range.
CreateVolumeRejected ==
  \E request \in CreateRejects(Vols) :
    Completed("CreateVolume", request, CreateVolume(host, request))

DeleteVolumeRejected ==
  \E request \in DeleteRejects(Vols) :
    Completed("DeleteVolume", request, DeleteVolume(host, request))

ControllerExpandVolumeRejected ==
  \E request \in ControllerExpandRejects(Vols) :
    Completed("ControllerExpandVolume", request, ControllerExpandVolume(host, request))

NodeStageVolumeRejected ==
  \E request \in StageRejects(Vols) :
    Completed("NodeStageVolume", request, NodeStageVolume(host, request))

NodeUnstageVolumeRejected ==
  \E request \in UnstageRejects(Vols) :
    Completed("NodeUnstageVolume", request, NodeUnstageVolume(host, request))

NodePublishVolumeRejected ==
  \E request \in PublishRejects(Vols) :
    Completed("NodePublishVolume", request, NodePublishVolume(host, request))

NodeUnpublishVolumeRejected ==
  \E request \in UnpublishRejects(Vols) :
    Completed("NodeUnpublishVolume", request, NodeUnpublishVolume(host, request))

NodeExpandVolumeRejected ==
  \E request \in NodeExpandRejects(Vols) :
    Completed("NodeExpandVolume", request, NodeExpandVolume(host, request))

NodeGetVolumeStatsRejected ==
  \E request \in StatsRejects(Vols) :
    Completed("NodeGetVolumeStats", request, NodeGetVolumeStats(host, request))

\* Volumes are created, staged, unstaged and deleted, and between these RPCs
\* every handler receives requests that it has to reject.
NextReject ==
  \/ CreateVolumeRPC
  \/ DeleteVolumeRPC
  \/ NodeStageVolumeRPC
  \/ NodeUnstageVolumeRPC
  \/ CreateVolumeRejected
  \/ DeleteVolumeRejected
  \/ ControllerExpandVolumeRejected
  \/ NodeStageVolumeRejected
  \/ NodeUnstageVolumeRejected
  \/ NodePublishVolumeRejected
  \/ NodeUnpublishVolumeRejected
  \/ NodeExpandVolumeRejected
  \/ NodeGetVolumeStatsRejected

SpecReject == Init /\ [][NextReject]_vars

\* Two volumes on the one node: the orchestrator drives every volume of Ids
\* through the same plugin process, which shares the images directory, the
\* loop devices and the mount table between them.
CreateVolumeSharedRPC ==
  \E request \in CreateRequests(Ids) :
    Completed("CreateVolume", request, CreateVolume(host, request))

DeleteVolumeSharedRPC ==
  \E request \in DeleteRequests(Ids) :
    LET r == DeleteVolume(host, request)
    IN /\ Cardinality(Orphans(r.h)) <= MaxOrphans
       /\ Completed("DeleteVolume", request, r)

NodeStageVolumeSharedRPC ==
  \E request \in StageRequests(Ids) :
    Completed("NodeStageVolume", request, NodeStageVolume(host, request))

NodeUnstageVolumeSharedRPC ==
  \E request \in UnstageRequests(Ids) :
    Completed("NodeUnstageVolume", request, NodeUnstageVolume(host, request))

NextShared ==
  \/ CreateVolumeSharedRPC
  \/ DeleteVolumeSharedRPC
  \/ NodeStageVolumeSharedRPC
  \/ NodeUnstageVolumeSharedRPC

SpecShared == Init /\ [][NextShared]_vars

\* --------------------------------------------------- handlers in parallel
\* The server runs every RPC in a goroutine of its own and the plugin holds
\* no lock: the commands a handler runs (blkid/mkfs, losetup --associated,
\* losetup --find, findmnt, mount, stat, truncate) interleave with those of
\* the handlers running next to it. Each action below is one step of one
\* handler, from one command of the handler to the next.
HostBecomes(h) ==
  /\ images' = h.images
  /\ loops' = h.loops
  /\ mounts' = h.mounts
  /\ poolFree' = h.free

Returns(g) == calls' = [calls EXCEPT ![g] = Idle]
Goes(g, c) == calls' = [calls EXCEPT ![g] = c]

\* The sizes two NodeExpandVolume issued at the same time ask for.
ConcurrentSizes == {2 * Gb, 3 * Gb}
ConcurrentExpandRequests ==
  {ExpandReq(id, "mount", Range(s, 0)) : id \in Vols, s \in ConcurrentSizes}

\* NodeStageVolume, up to and including FormatIfNot.
StageFormat(g) ==
  /\ calls[g] = Idle
  /\ \E request \in StageRequests(Vols) :
       LET volumeId == request.volumeId
           fsType == IF request.fsType # "" THEN request.fsType ELSE "ext4"
           f == FormatIfNot(host, volumeId, fsType)
       IN /\ HostBecomes(f.h)
          /\ IF f.err # "nil" THEN Returns(g)
             ELSE Goes(g, [Idle EXCEPT !.op = "NodeStageVolume",
                                       !.pc = "GetDeviceByVolumeId",
                                       !.volumeId = volumeId,
                                       !.target = request.stagingTargetPath])
  /\ UNCHANGED <<last, rt>>

\* AttachDevice, up to and including GetDeviceByVolumeId.
StageLookup(g) ==
  /\ calls[g].op = "NodeStageVolume"
  /\ calls[g].pc = "GetDeviceByVolumeId"
  /\ LET volumeId == calls[g].volumeId
         dev == GetDeviceByVolumeId(host, volumeId)
     IN IF ~isFileExists(host, volumeId) \/ dev.err # "nil" THEN Returns(g)
        ELSE IF dev.val # NoDev
        THEN Goes(g, [calls[g] EXCEPT !.pc = "IsMounted", !.dev = dev.val])
        ELSE Goes(g, [calls[g] EXCEPT !.pc = "losetup"])
  /\ UNCHANGED <<images, loops, mounts, poolFree, last, rt>>

\* AttachDevice, the losetup --find --show that follows an empty lookup.
StageBind(g) ==
  /\ calls[g].op = "NodeStageVolume"
  /\ calls[g].pc = "losetup"
  /\ LET l == losetupFind(host, calls[g].volumeId)
     IN /\ HostBecomes(l.h)
        /\ IF l.err # "nil" THEN Returns(g)
           ELSE Goes(g, [calls[g] EXCEPT !.pc = "IsMounted", !.dev = l.val])
  /\ UNCHANGED <<last, rt>>

\* Mount, up to and including IsMounted (NodeStageVolume: the device on the
\* staging path; NodePublishVolume: the staging path bound on the target).
MountCheck(g) ==
  /\ calls[g].op \in {"NodeStageVolume", "NodePublishVolume"}
  /\ calls[g].pc = "IsMounted"
  /\ LET isMounted == IsMounted(host, calls[g].target)
     IN IF isMounted.err # "nil" \/ isMounted.val THEN Returns(g)
        ELSE Goes(g, [calls[g] EXCEPT !.pc = "mount"])
  /\ UNCHANGED <<images, loops, mounts, poolFree, last, rt>>

\* Mount, the mount command that follows a target found not mounted.
MountExec(g) ==
  /\ calls[g].op \in {"NodeStageVolume", "NodePublishVolume"}
  /\ calls[g].pc = "mount"
  /\ LET source == IF calls[g].op = "NodeStageVolume"
                   THEN DevSource(calls[g].dev)
                   ELSE PathSource(StagingPath(calls[g].volumeId))
         options == [bind |-> calls[g].op = "NodePublishVolume", ro |-> calls[g].ro]
         m == mountCmd(host, source, calls[g].target, options)
     IN HostBecomes(m.h)
  /\ Returns(g)
  /\ UNCHANGED <<last, rt>>

\* NodePublishVolume, up to the call of Mount.
PublishCalled(g) ==
  /\ calls[g] = Idle
  /\ \E request \in PublishRequests(Vols) :
       Goes(g, [Idle EXCEPT !.op = "NodePublishVolume", !.pc = "IsMounted",
                            !.volumeId = request.volumeId,
                            !.target = request.targetPath,
                            !.ro = request.readonly])
  /\ UNCHANGED <<images, loops, mounts, poolFree, last, rt>>

\* NodeExpandVolume and ExpandVolumeSize, up to and including the reads of
\* the current length and of the free space.
ExpandRead(g) ==
  /\ calls[g] = Idle
  /\ \E request \in ConcurrentExpandRequests :
       LET volumeId == request.volumeId
           size == calculateVolumeSize(request.capacityRange)
           currentSize == GetVolumeSize(host, volumeId)
           available == GetCapacity(host)
           addSize == size.val - currentSize.val
       IN IF size.err \/ currentSize.err # "nil" \/ available.err # "nil"
          THEN Returns(g)
          ELSE IF addSize >= available.val THEN Returns(g)
          ELSE Goes(g, [Idle EXCEPT !.op = "NodeExpandVolume",
                                    !.pc = IF addSize > 0 THEN "truncate"
                                           ELSE "ResizeDeviceFileSystem",
                                    !.volumeId = volumeId,
                                    !.size = size.val])
  /\ UNCHANGED <<images, loops, mounts, poolFree, last, rt>>

\* ExpandVolumeSize, the truncate -s newSizeBytes that follows addSize > 0.
ExpandTruncate(g) ==
  /\ calls[g].op = "NodeExpandVolume"
  /\ calls[g].pc = "truncate"
  /\ LET t == truncate(host, calls[g].volumeId, calls[g].size)
     IN /\ HostBecomes(t.h)
        /\ IF t.err # "nil" THEN Returns(g)
           ELSE Goes(g, [calls[g] EXCEPT !.pc = "ResizeDeviceFileSystem"])
  /\ UNCHANGED <<last, rt>>

\* NodeExpandVolume, the ResizeDeviceFileSystem that ends it.
ExpandResize(g) ==
  /\ calls[g].op = "NodeExpandVolume"
  /\ calls[g].pc = "ResizeDeviceFileSystem"
  /\ HostBecomes(ResizeDeviceFileSystem(host, calls[g].volumeId).h)
  /\ Returns(g)
  /\ UNCHANGED <<last, rt>>

StageFormatStep == \E g \in Goroutines : StageFormat(g)
StageLookupStep == \E g \in Goroutines : StageLookup(g)
StageBindStep == \E g \in Goroutines : StageBind(g)
MountCheckStep == \E g \in Goroutines : MountCheck(g)
MountExecStep == \E g \in Goroutines : MountExec(g)
PublishCalledStep == \E g \in Goroutines : PublishCalled(g)
ExpandReadStep == \E g \in Goroutines : ExpandRead(g)
ExpandTruncateStep == \E g \in Goroutines : ExpandTruncate(g)
ExpandResizeStep == \E g \in Goroutines : ExpandResize(g)

\* A volume is created, then staged, published and grown by handlers that
\* run side by side.
NextConcurrent ==
  \/ CreateVolumeRPC
  \/ StageFormatStep
  \/ StageLookupStep
  \/ StageBindStep
  \/ MountCheckStep
  \/ MountExecStep
  \/ PublishCalledStep
  \/ ExpandReadStep
  \/ ExpandTruncateStep
  \/ ExpandResizeStep

SpecConcurrent == Init /\ [][NextConcurrent]_vars

\* ------------------------------------------------------------------ claims
ValidCreateRequest(request) ==
  /\ request.name # ""
  /\ Len(request.volumeCapabilities) > 0
  /\ \A i \in 1 .. Len(request.volumeCapabilities) :
        request.volumeCapabilities[i] = MountCap
  /\ request.topology \notin {"nil", "empty", "nokey"}
  /\ ~calculateVolumeSize(request.capacityRange).err

Staged(h, id) == h.mounts[StagingPath(id)] # << >>

\* The mount-table entries that are filesystem (not bind) mounts of a loop
\* device of volume id.
StagingMountsOf(h, id) ==
  UNION {{<<p, i>> : i \in {j \in 1 .. Len(h.mounts[p]) :
                              /\ ~h.mounts[p][j].bind
                              /\ h.mounts[p][j].dev \in Devices
                              /\ h.loops[h.mounts[p][j].dev].id = id}} :
         p \in Paths}

\* C1: every valid CreateVolume(id, S), called twice in a row from any
\* reachable state, succeeds both times, leaves the image of id present with
\* a logical length of at least S, and the second call changes nothing.
C1_CreateVolumeRepeatable ==
  \A request \in CreateRequests(Vols) \cup CreateRejects(Vols) :
    ValidCreateRequest(request) =>
      LET S == calculateVolumeSize(request.capacityRange).val
          r1 == CreateVolume(host, request)
          r2 == CreateVolume(r1.h, request)
      IN /\ r1.code = "OK"
         /\ r2.code = "OK"
         /\ r1.h.images[request.name].exists
         /\ r1.h.images[request.name].size >= S
         /\ r2.h = r1.h

\* C2: from every reachable state, two DeleteVolume(id) calls in a row with a
\* non-empty id both succeed, and no image of id exists after either call.
C2_DeleteVolumeTwice ==
  \A request \in DeleteRequests(Vols) \cup DeleteRejects(Vols) :
    request.volumeId # "" =>
      LET r1 == DeleteVolume(host, request)
          r2 == DeleteVolume(r1.h, request)
      IN /\ r1.code = "OK"
         /\ r2.code = "OK"
         /\ ~r1.h.images[request.volumeId].exists
         /\ ~r2.h.images[request.volumeId].exists

\* A DeleteVolume has just succeeded on an id whose image was already absent.
C2_Witness ==
  /\ last.op = "DeleteVolume"
  /\ last.code = "OK"
  /\ last.id \in Vols
  /\ ~last.changed
  /\ ~images[last.id].exists

\* The six responses of the life cycle run from host state h.
RoundTrip(h, id, cr, fs, k) ==
  LET c == CreateVolume(h, CreateReq(id, <<MountCap>>, nodeId, cr))
      s == NodeStageVolume(c.h, StageReq(id, StagingPath(id), "mount", fs))
      p == NodePublishVolume(s.h, PublishReq(id, StagingPath(id), TargetPath(id, k),
                                             FALSE, "mount"))
      up == NodeUnpublishVolume(p.h, UnpublishReq(id, TargetPath(id, k)))
      us == NodeUnstageVolume(up.h, UnstageReq(id, StagingPath(id)))
      d == DeleteVolume(us.h, IdReq(id))
  IN <<c, s, p, up, us, d>>

\* C3: from every reachable state in which the image of id is absent, the
\* sequence CreateVolume, NodeStageVolume, NodePublishVolume,
\* NodeUnpublishVolume, NodeUnstageVolume, DeleteVolume succeeds at every step
\* and ends with no image of id, no loop device bound to it (none found by its
\* path, none left behind on the unlinked file) and no mount at the staging
\* path or the target path.
C3_RoundTrip ==
  /\ \A id \in Vols : ~images[id].exists =>
       \A cr \in CapRanges :
         \A fs \in {"", "ext4"} : \A k \in 1 .. NumTargets :
           LET t == RoundTrip(host, id, cr, fs, k)
           IN /\ \A i \in 1 .. 6 : t[i].code = "OK"
              /\ ~t[6].h.images[id].exists
              /\ AssociatedDevices(t[6].h, id) = {}
              /\ Orphans(t[6].h) \subseteq Orphans(host)
              /\ t[6].h.mounts[StagingPath(id)] = << >>
              /\ t[6].h.mounts[TargetPath(id, k)] = << >>
  /\ rt.step = 6 =>
       /\ ~images[rt.id].exists
       /\ mounts[StagingPath(rt.id)] = << >>
       /\ mounts[rt.target] = << >>

\* The six RPCs of the life cycle have been completed back to back.
C3_Witness ==
  /\ rt.step = 6
  /\ ~images[rt.id].exists
  /\ \A d \in Devices : ~loops[d].busy
  /\ \A p \in Paths : mounts[p] = << >>

\* C4 (I1): whenever the staging path of a volume is mounted, its image exists,
\* a loop device is bound to the image, and the staging mount is a mount of
\* that device.
C4_StagedImpliesAttached ==
  \A id \in Vols :
    Staged(host, id) =>
      /\ images[id].exists
      /\ AssociatedDevices(host, id) # {}
      /\ Top(mounts[StagingPath(id)]).dev \in AssociatedDevices(host, id)

\* C5 (I2): whenever a bind mount exists at a target path of a volume, the
\* staging path of that volume is mounted.
C5_PublishedImpliesStaged ==
  \A id \in Vols : \A k \in 1 .. NumTargets :
    mounts[TargetPath(id, k)] # << >> => Staged(host, id)

\* C6: no image has more than one loop device bound to it, and AttachDevice
\* called twice on a present image returns the same device both times, the
\* second call leaving the loop table as the first left it.
C6_OneLoopPerImage ==
  \A id \in Vols :
    /\ Cardinality(AssociatedDevices(host, id)) <= 1
    /\ images[id].exists =>
         LET a1 == AttachDevice(host, id)
             a2 == AttachDevice(a1.h, id)
         IN /\ a1.err = "nil"
            /\ a2.err = "nil"
            /\ a2.val = a1.val
            /\ a2.h = a1.h
            /\ AssociatedDevices(a2.h, id) = {a1.val}

\* A NodeStageVolume has just succeeded on a volume that was already attached
\* and staged.
C6_Witness ==
  /\ last.op = "NodeStageVolume"
  /\ last.code = "OK"
  /\ ~last.changed
  /\ Cardinality(AssociatedDevices(host, last.id)) = 1

ExpandSizes ==
  {-1, 0, 1, Gb \div 2, 1 * Gb, 2 * Gb, 3 * Gb, 5 * Gb, maximumVolumeSize + 1}

\* C8 (I4): from every reachable state with the image of id present, whatever
\* the free space of the pool, no ExpandVolumeSize with any size, no
\* NodeExpandVolume and no ControllerExpandVolume leaves the image shorter
\* than it was.
C8_SizeMonotone ==
  \A id \in Vols :
    images[id].exists =>
      /\ \A n \in ExpandSizes :
           LET e == ExpandVolumeSize(host, id, n)
           IN e.h.images[id].exists /\ e.h.images[id].size >= images[id].size
      /\ \A request \in NodeExpandRequests(Vols) \cup NodeExpandRejects(Vols) :
           LET r == NodeExpandVolume(host, request)
           IN r.h.images[id].exists /\ r.h.images[id].size >= images[id].size
      /\ \A request \in ControllerExpandRequests(Vols) \cup ControllerExpandRejects(Vols) :
           ControllerExpandVolume(host, request).h.images[id] = images[id]

\* A NodeExpandVolume asking for less than the current length has succeeded.
C8_Witness ==
  /\ last.op = "NodeExpandVolume"
  /\ last.code = "OK"
  /\ images[last.id].exists
  /\ last.ret.capacity < images[last.id].size

\* C9: whenever NodeUnstageVolume, NodeUnpublishVolume or NodeExpandVolume
\* succeeds from a reachable state (NodeExpandVolume with any amount of free
\* space in the pool), the same request replayed at once succeeds again and
\* leaves images, loop devices and mounts as the first call did.
C9_TeardownExpandIdempotent ==
  /\ \A request \in UnstageRequests(Vols) \cup UnstageRejects(Vols) :
       LET r1 == NodeUnstageVolume(host, request)
           r2 == NodeUnstageVolume(r1.h, request)
       IN r1.code = "OK" => r2.code = "OK" /\ r2.h = r1.h
  /\ \A request \in UnpublishRequests(Vols) \cup UnpublishRejects(Vols) :
       LET r1 == NodeUnpublishVolume(host, request)
           r2 == NodeUnpublishVolume(r1.h, request)
       IN r1.code = "OK" => r2.code = "OK" /\ r2.h = r1.h
  /\ \A request \in NodeExpandRequests(Vols) \cup NodeExpandRejects(Vols) :
       \A f \in PoolFreeValues :
         LET r1 == NodeExpandVolume(hostWith(f), request)
             r2 == NodeExpandVolume(r1.h, request)
         IN r1.code = "OK" => r2.code = "OK" /\ r2.h = r1.h /\ r2.ret = r1.ret

\* A NodeUnstageVolume has just succeeded on a volume that was already
\* unstaged and detached.
C9_Witness ==
  /\ last.op = "NodeUnstageVolume"
  /\ last.code = "OK"
  /\ ~last.changed
  /\ images[last.id].exists
  /\ ~Staged(host, last.id)

\* C10: from every reachable state in which the volume is staged, a successful
\* NodeUnstageVolume leaves the staging path unmounted and
\* GetDeviceByVolumeId(id) empty.
C10_UnstageDetaches ==
  \A id \in Vols :
    Staged(host, id) =>
      LET r == NodeUnstageVolume(host, UnstageReq(id, StagingPath(id)))
          m == IsMounted(r.h, StagingPath(id))
          d == GetDeviceByVolumeId(r.h, id)
      IN r.code = "OK" =>
           /\ m.err = "nil" /\ ~m.val
           /\ d.err = "nil" /\ d.val = NoDev

\* The four responses of staging twice and publishing twice, run from h.
StageTwicePublishTwice(h, id, fs, k) ==
  LET sreq == StageReq(id, StagingPath(id), "mount", fs)
      preq == PublishReq(id, StagingPath(id), TargetPath(id, k), FALSE, "mount")
      s1 == NodeStageVolume(h, sreq)
      s2 == NodeStageVolume(s1.h, sreq)
      p1 == NodePublishVolume(s2.h, preq)
      p2 == NodePublishVolume(p1.h, preq)
  IN <<s1, s2, p1, p2>>

\* C11: from every reachable state in which the image of id exists,
\* NodeStageVolume twice followed by NodePublishVolume twice with the same
\* arguments all succeed, the second call of each pair changes nothing, and
\* afterwards the mount table holds exactly one entry at the staging path, a
\* filesystem mount, and exactly one entry at the target path, a bind mount.
C11_StagePublishIdempotent ==
  \A id \in Vols : images[id].exists =>
    \A fs \in {"", "ext4"} : \A k \in 1 .. NumTargets :
      LET t == StageTwicePublishTwice(host, id, fs, k)
          m == t[4].h.mounts
      IN /\ \A i \in 1 .. 4 : t[i].code = "OK"
         /\ t[2].h = t[1].h
         /\ t[4].h = t[3].h
         /\ Len(m[StagingPath(id)]) = 1
         /\ ~m[StagingPath(id)][1].bind
         /\ Len(m[TargetPath(id, k)]) = 1
         /\ m[TargetPath(id, k)][1].bind

\* A NodePublishVolume has just been replayed (it succeeded and changed
\* nothing) on a volume that is staged from its loop device and published.
C11_Witness ==
  /\ last.op = "NodePublishVolume"
  /\ last.code = "OK"
  /\ ~last.changed
  /\ images[last.id].exists
  /\ Len(mounts[StagingPath(last.id)]) = 1
  /\ Top(mounts[StagingPath(last.id)]).dev \in AssociatedDevices(host, last.id)
  /\ \E k \in 1 .. NumTargets :
       /\ Len(mounts[TargetPath(last.id, k)]) = 1
       /\ mounts[TargetPath(last.id, k)][1].dev = Top(mounts[StagingPath(last.id)]).dev

\* C12: from every reachable state in which volume id is staged from the loop
\* device bound to its image, DeleteVolume(id) succeeds and removes the image,
\* and the NodeUnstageVolume(id, staging path) that follows succeeds and
\* leaves the staging path unmounted and the loop device free.
C12_UnstageAfterDelete ==
  \A id \in Vols :
    (/\ images[id].exists
     /\ Staged(host, id)
     /\ Top(mounts[StagingPath(id)]).dev \in AssociatedDevices(host, id)) =>
      LET dev == Top(mounts[StagingPath(id)]).dev
          d == DeleteVolume(host, IdReq(id))
          u == NodeUnstageVolume(d.h, UnstageReq(id, StagingPath(id)))
      IN /\ d.code = "OK"
         /\ ~d.h.images[id].exists
         /\ d.h.loops[dev].busy
         /\ u.code = "OK"
         /\ u.h.mounts[StagingPath(id)] = << >>
         /\ (\A k \in 1 .. NumTargets : mounts[TargetPath(id, k)] = << >>) =>
              ~u.h.loops[dev].busy

\* C13: every CreateVolume that is valid but for its preferred topology
\* segment, which carries the configured key with a value other than this
\* node's id, returns InvalidArgument and leaves the host unchanged (no image
\* is created).
C13_CrossNodeRejected ==
  \A request \in CreateRequests(Vols) \cup CreateRejects(Vols) :
    (ValidCreateRequest(request) /\ request.topology # nodeId) =>
      LET r == CreateVolume(host, request)
      IN /\ r.code = "InvalidArgument"
         /\ r.h = host

\* C14: whenever the image of a volume exists and a valid NodeExpandVolume
\* asks for a size that exceeds the current length by at least the pool's
\* free space, the RPC returns ResourceExhausted and leaves the image as it was.
C14_ExpandBeyondPool ==
  \A request \in NodeExpandRequests(Vols) :
    LET id == request.volumeId
        size == calculateVolumeSize(request.capacityRange).val
        r == NodeExpandVolume(host, request)
    IN (/\ images[id].exists
        /\ size > images[id].size
        /\ size - images[id].size >= poolFree) =>
         /\ r.code = "ResourceExhausted"
         /\ r.h.images = images

\* C15: whenever the image of id exists, ExpandVolumeSize(id, n) with n above
\* the current length succeeds exactly when n - current < free space of the
\* pool; it then sets the length to n and touches nothing else, and otherwise
\* it fails and leaves the host as it was.
C15_GrowIffStrictlyFits ==
  \A id \in Vols : \A n \in ExpandSizes :
    (images[id].exists /\ n > images[id].size) =>
      LET e == ExpandVolumeSize(host, id, n)
      IN IF n - images[id].size < poolFree
         THEN /\ e.err = "nil"
              /\ e.h = [host EXCEPT !.images[id].size = n]
         ELSE /\ e.err # "nil"
              /\ e.h = host

\* A NodeExpandVolume of a staged 1 GiB volume has just failed without a
\* change while the pool had exactly 1 GiB free: the growth asked for (to
\* 2 GiB) equals the free space.
C15_Witness ==
  /\ last.op = "NodeExpandVolume"
  /\ last.code = "Internal"
  /\ ~last.changed
  /\ images[last.id].exists
  /\ images[last.id].fs = "ext4"
  /\ AssociatedDevices(host, last.id) # {}
  /\ images[last.id].size = 1 * Gb
  /\ poolFree = 1 * Gb

\* C16: whenever the image of id exists, ExpandVolumeSize(id, n) with
\* 0 < n <= current length succeeds and leaves the host as it was, whatever
\* the free space of the pool, a full pool included.
C16_NoGrowthAlwaysSucceeds ==
  \A id \in Vols : \A n \in ExpandSizes :
    (images[id].exists /\ 0 < n /\ n <= images[id].size) =>
      LET e == ExpandVolumeSize(host, id, n)
      IN /\ e.err = "nil"
         /\ e.h = host

\* C17: every evaluation of calculateVolumeSize, for every pair of required
\* and limit probed and for the absent range, has the outcome the eight rules
\* of the capacity-range arithmetic give (a field being set iff it is above
\* 0): the same error or the same size.
C17_CapacityArithmetic ==
  last.op = "calculateVolumeSize" =>
    LET required == last.range.required
        limit == last.range.limit
        rSet == ~last.range.isNil /\ required > 0
        lSet == ~last.range.isNil /\ limit > 0
        Set == (IF rSet THEN {required} ELSE {}) \cup (IF lSet THEN {limit} ELSE {})
        Err == [err |-> TRUE, val |-> 0]
        Size(v) == [err |-> FALSE, val |-> v]
        rule == IF Set = {} THEN Size(defaultVolumeSize)                \* rule 1
                ELSE IF rSet /\ lSet /\ limit < required THEN Err       \* rule 2
                ELSE IF \E v \in Set : v < minimumVolumeSize THEN Err   \* rule 3
                ELSE IF \E v \in Set : v > maximumVolumeSize THEN Err   \* rule 4
                ELSE IF rSet /\ lSet /\ required = limit
                     THEN Size(required)                                \* rule 5
                ELSE IF lSet /\ ~rSet THEN Size(limit)                  \* rule 6
                ELSE IF rSet /\ ~lSet THEN Size(required)               \* rule 7
                ELSE Size(limit)                                        \* rule 8
    IN /\ (last.code = "OutOfRange") = rule.err
       /\ (last.code = "OK") = ~rule.err
       /\ last.ret.capacity = rule.val

\* calculateVolumeSize has just been evaluated on a range with both fields
\* set, within the supported sizes and unequal, and has returned the limit.
C17_Witness ==
  /\ last.op = "calculateVolumeSize"
  /\ ~last.range.isNil
  /\ minimumVolumeSize <= last.range.required
  /\ last.range.required < last.range.limit
  /\ last.range.limit <= maximumVolumeSize
  /\ last.code = "OK"
  /\ last.ret.capacity = last.range.limit

\* C18: from every reachable state NodeGetVolumeStats leaves images, loop
\* devices and mounts as they were; with a volume id and a path given, it
\* returns NotFound whenever nothing is mounted at the path, and it returns
\* usage entries only when IsMounted(path) is true, and then the two entries
\* for bytes and inodes.
C18_StatsNeedMount ==
  \A request \in StatsRequests(Vols) \cup StatsRejects(Vols) :
    LET r == NodeGetVolumeStats(host, request)
        path == request.volumePath
    IN /\ r.h = host
       /\ (request.volumeId # "" /\ path # EmptyPath) =>
            LET m == IsMounted(host, path)
            IN /\ mounts[path] = << >> => r.code = "NotFound"
               /\ r.code = "NotFound" => r.ret.usage = << >>
               /\ r.ret.usage # << >> => (m.err = "nil" /\ m.val /\ r.code = "OK")
               /\ r.code = "OK" => r.ret.usage = <<"BYTES", "INODES">>

\* A NodeGetVolumeStats has just returned NotFound for a volume whose image
\* exists and whose staging and target paths are not mounted.
C18_Witness ==
  /\ last.op = "NodeGetVolumeStats"
  /\ last.code = "NotFound"
  /\ ~last.changed
  /\ last.ret.usage = << >>
  /\ images[last.id].exists
  /\ mounts[StagingPath(last.id)] = << >>
  /\ \A k \in 1 .. NumTargets : mounts[TargetPath(last.id, k)] = << >>

\* C19: from every reachable state, whatever the free space of the pool,
\* ControllerExpandVolume with a volume id (of an existing image or not) and
\* a valid range succeeds, returns the size the capacity arithmetic gives for
\* the range with node_expansion_required set, and leaves images, loop
\* devices and mounts as they were.
C19_ControllerExpandIsPure ==
  \A request \in ControllerExpandRequests(Ids) :
    LET r == ControllerExpandVolume(host, request)
        size == calculateVolumeSize(request.capacityRange)
    IN /\ ~size.err
       /\ r.code = "OK"
       /\ r.ret.capacity = size.val
       /\ r.ret.nodeExpansionRequired
       /\ r.h = host

\* A ControllerExpandVolume for 2 GiB has just succeeded on a volume whose
\* image is 1 GiB long, and has left it so.
C19_Witness ==
  /\ last.op = "ControllerExpandVolume"
  /\ last.code = "OK"
  /\ last.ret.capacity = 2 * Gb
  /\ last.ret.nodeExpansionRequired
  /\ ~last.changed
  /\ images[last.id].exists
  /\ images[last.id].size = 1 * Gb

\* C20: from every reachable state, a valid NodeExpandVolume returns NotFound
\* whenever ExpandVolumeSize, or the ResizeDeviceFileSystem that follows its
\* success, reports ErrorVolumeNotFound: when the image is absent, and when
\* the image exists but no loop device is bound to it.
C20_ExpandNotFound ==
  \A request \in NodeExpandRequests(Vols) :
    LET id == request.volumeId
        size == calculateVolumeSize(request.capacityRange).val
        e == ExpandVolumeSize(host, id, size)
        f == ResizeDeviceFileSystem(e.h, id)
        r == NodeExpandVolume(host, request)
    IN /\ ~images[id].exists => (e.err = "ErrorVolumeNotFound" /\ r.code = "NotFound")
       /\ (images[id].exists /\ AssociatedDevices(host, id) = {} /\ e.err = "nil") =>
            (f.err = "ErrorVolumeNotFound" /\ r.code = "NotFound")

\* C21: from every reachable state, a NodeStageVolume with a volume id, a
\* staging path and a capability whose access type is not mount (block)
\* returns Unimplemented and leaves images (no format), loop devices (no
\* attach) and mounts as they were.
C21_BlockStageUnimplemented ==
  \A request \in StageRequests(Vols) \cup StageRejects(Vols) :
    (/\ request.volumeId # ""
     /\ request.stagingTargetPath # EmptyPath
     /\ request.capability \notin {"nil", "mount"}) =>
      LET r == NodeStageVolume(host, request)
      IN /\ r.code = "Unimplemented"
         /\ r.h = host

\* A NodeStageVolume with a block capability has just been answered with
\* Unimplemented for a volume whose image exists: the image is still
\* unformatted, no loop device is bound and nothing is mounted.
C21_Witness ==
  /\ last.op = "NodeStageVolume"
  /\ last.code = "Unimplemented"
  /\ ~last.changed
  /\ images[last.id].exists
  /\ images[last.id].fs = ""
  /\ \A d \in Devices : ~loops[d].busy
  /\ \A p \in Paths : mounts[p] = << >>

\* The sources the handlers hand to Mount.
MountSources ==
  {DevSource(d) : d \in Devices} \cup {PathSource(p) : p \in StagingPaths}

\* C22: in every reachable state and for every path, IsMounted(path) fails
\* whenever an entry the mount table holds for the path has a propagation
\* other than shared, and then Mount and Unmount on the path fail and
\* NodeGetVolumeStats on it returns an error, all three leaving the host (the
\* mount table included) as it was; when all entries are shared IsMounted
\* succeeds and reports true iff the table holds an entry for the path.
C22_PropagationGuard ==
  \A p \in Paths :
    LET m == IsMounted(host, p)
        u == Unmount(host, p)
    IN IF \E i \in 1 .. Len(mounts[p]) : mounts[p][i].prop # "shared"
       THEN /\ m.err # "nil"
            /\ \A source \in MountSources : \A bind \in BOOLEAN :
                 LET mt == Mount(host, source, p, [bind |-> bind, ro |-> FALSE])
                 IN mt.err # "nil" /\ mt.h = host
            /\ u.err # "nil" /\ u.h = host
            /\ \A id \in Vols :
                 LET r == NodeGetVolumeStats(host, StatsReq(id, p))
                 IN r.code = "Internal" /\ r.h = host /\ r.ret.usage = << >>
       ELSE /\ m.err = "nil"
            /\ m.val = (mounts[p] # << >>)

\* A NodeGetVolumeStats has just failed with Internal on a path whose mount
\* has become private: every path of the volume that is mounted at all holds
\* a private entry.
C22_Witness ==
  /\ last.op = "NodeGetVolumeStats"
  /\ last.code = "Internal"
  /\ ~last.changed
  /\ \E p \in Paths : mounts[p] # << >>
  /\ \A p \in Paths :
       mounts[p] # << >> => \E i \in 1 .. Len(mounts[p]) : mounts[p][i].prop = "private"

\* The sizes CreateVolume hands to Create.
CreateSizes == {calculateVolumeSize(cr).val : cr \in CapRanges}

\* C23: whenever Create(id, size) returns an error, its truncate having been
\* cancelled or having failed at any point, no image file of id is left
\* behind; hence a CreateVolume that was answered with Internal leaves no
\* image, and the Create that retries it ends with an image of the requested
\* length.
C23_CreateAllOrNothing ==
  /\ \A id \in Vols : \A size \in CreateSizes : \A progress \in TruncateProgress :
       LET c == CreateInterrupted(host, id, size, progress)
           retry == Create(c.h, id, size)
       IN c.err # "nil" =>
            /\ ~c.h.images[id].exists
            /\ retry.err = "nil" => retry.h.images[id].size = size
  /\ (last.op = "CreateVolume" /\ last.code = "Internal") =>
       ~images[last.id].exists

\* C24: from every reachable state in which NodeStageVolume succeeds, the same
\* request cancelled after any prefix of its steps (none, format,
\* format and attach, all three) and then issued again succeeds and leaves
\* the host exactly as the one uninterrupted call does: mkfs has run once on
\* the image, one loop device is bound to it and one mount is at the staging
\* path; and so it is after every retry of a cancelled call that succeeded.
C24_StageRetryConverges ==
  /\ \A request \in StageRequests(Vols) : \A steps \in 0 .. 3 :
       LET id == request.volumeId
           once == NodeStageVolume(host, request)
           c == NodeStageVolumeCancelled(host, request, steps)
           r == NodeStageVolume(c.h, request)
       IN once.code = "OK" =>
            /\ r.code = "OK"
            /\ r.h = once.h
            /\ r.h.images[id].mkfsRuns = 1
            /\ Cardinality(AssociatedDevices(r.h, id)) = 1
            /\ Len(r.h.mounts[StagingPath(id)]) = 1
  /\ (last.op = "NodeStageVolume (retry)" /\ last.code = "OK") =>
       /\ images[last.id].mkfsRuns = 1
       /\ Cardinality(AssociatedDevices(host, last.id)) = 1
       /\ Len(mounts[StagingPath(last.id)]) = 1

\* The retry of a cancelled NodeStageVolume has just succeeded and has done
\* the steps that were left: the image is formatted, the only busy loop device
\* is bound to it and is the one mounted at the staging path.
C24_Witness ==
  /\ last.op = "NodeStageVolume (retry)"
  /\ last.code = "OK"
  /\ last.changed
  /\ images[last.id].mkfsRuns = 1
  /\ Cardinality({d \in Devices : loops[d].busy}) = 1
  /\ Len(mounts[StagingPath(last.id)]) = 1
  /\ Top(mounts[StagingPath(last.id)]).dev \in AssociatedDevices(host, last.id)

\* C25: from every reachable state, a NodeUnstageVolume with id and staging
\* path unmounts first: when Unmount of the staging path fails the RPC returns
\* Internal and the loop devices (the whole host) are as they were, no detach
\* having been attempted; when Unmount succeeds, the detach acts on the host
\* as Unmount left it.
C25_UnmountBeforeDetach ==
  \A request \in UnstageRequests(Vols) :
    LET u == Unmount(host, request.stagingTargetPath)
        d == DetachDevice(u.h, request.volumeId)
        r == NodeUnstageVolume(host, request)
    IN IF u.err # "nil"
       THEN /\ r.code = "Internal"
            /\ r.h.loops = loops
            /\ r.h = host
       ELSE /\ r.h = d.h
            /\ r.code = IF d.err = "nil" THEN "OK" ELSE "Internal"

\* A NodeUnstageVolume has just failed at the unmount of a staging path whose
\* mount has become private: the staging mount is still there and its loop
\* device is still bound to the image, not flagged for release.
C25_Witness ==
  /\ last.op = "NodeUnstageVolume"
  /\ last.code = "Internal"
  /\ ~last.changed
  /\ Len(mounts[StagingPath(last.id)]) = 1
  /\ mounts[StagingPath(last.id)][1].prop = "private"
  /\ mounts[StagingPath(last.id)][1].dev \in AssociatedDevices(host, last.id)
  /\ ~loops[mounts[StagingPath(last.id)][1].dev].autoclear

\* C26: from every reachable state in which the image of id is absent, a
\* valid NodeStageVolume(id) returns NotFound and leaves the host as it was:
\* no loop device is bound and no mount is made at the staging path.
C26_StageAbsentNotFound ==
  \A request \in StageRequests(Vols) :
    ~images[request.volumeId].exists =>
      LET r == NodeStageVolume(host, request)
      IN /\ r.code = "NotFound"
         /\ r.h = host

\* C27: in every reachable state mkfs has run at most once on every image
\* since its creation, exactly once iff the image holds ext4, and FormatIfNot
\* on an image that holds the requested filesystem succeeds without running
\* mkfs (it leaves the host as it was).
C27_FormatOnce ==
  \A id \in Ids :
    /\ images[id].mkfsRuns <= 1
    /\ (images[id].fs = "ext4") = (images[id].mkfsRuns = 1)
    /\ (images[id].exists /\ images[id].fs = "ext4") =>
         LET f == FormatIfNot(host, id, "ext4")
         IN f.err = "nil" /\ f.h = host

\* A NodeStageVolume has just attached and mounted an image that was
\* formatted in an earlier staging and has grown since (its filesystem is
\* shorter than the file): mkfs has still run once.
C27_Witness ==
  /\ last.op = "NodeStageVolume"
  /\ last.code = "OK"
  /\ last.changed
  /\ images[last.id].fs = "ext4"
  /\ images[last.id].fsSize < images[last.id].size
  /\ images[last.id].mkfsRuns = 1
  /\ Staged(host, last.id)

\* C28: from every reachable state, every request with an empty volume id or
\* name, an empty staging, target or volume path, a missing or unsupported
\* capability, an unsupported access mode or a capacity range the capacity
\* arithmetic rejects is answered with an error and leaves images, loop
\* devices and mounts as they were; an empty id, name or path is answered
\* with InvalidArgument and a rejected capacity range with OutOfRange.
\* (Requests without accessibility requirements are not among these.)
C28_RejectedBeforeHost ==
  LET Rejected(r) == r.code \notin {"OK", "panic"} /\ r.h = host
      Invalid(r) == r.code = "InvalidArgument" /\ r.h = host
      BadRange(request) == request.capacityRange \in BadRanges
  IN /\ \A request \in CreateRejects(Vols) :
          LET r == CreateVolume(host, request)
          IN request.topology # "nil" =>
               /\ Rejected(r)
               /\ request.name = "" => Invalid(r)
               /\ BadRange(request) => r.code = "OutOfRange"
               /\ ~BadRange(request) => Invalid(r)
     /\ \A request \in DeleteRejects(Vols) : Invalid(DeleteVolume(host, request))
     /\ \A request \in ControllerExpandRejects(Vols) :
          LET r == ControllerExpandVolume(host, request)
          IN /\ Rejected(r)
             /\ request.volumeId = "" => Invalid(r)
             /\ BadRange(request) => r.code = "OutOfRange"
     /\ \A request \in NodeExpandRejects(Vols) :
          LET r == NodeExpandVolume(host, request)
          IN /\ Rejected(r)
             /\ request.volumeId = "" => Invalid(r)
             /\ request.capability = "nil" => Invalid(r)
             /\ request.capability = "block" => r.code = "Unimplemented"
             /\ BadRange(request) => r.code = "OutOfRange"
     /\ \A request \in StageRejects(Vols) :
          LET r == NodeStageVolume(host, request)
          IN /\ Rejected(r)
             /\ (\/ request.volumeId = ""
                 \/ request.stagingTargetPath = EmptyPath
                 \/ request.capability = "nil") => Invalid(r)
     /\ \A request \in UnstageRejects(Vols) : Invalid(NodeUnstageVolume(host, request))
     /\ \A request \in PublishRejects(Vols) : Invalid(NodePublishVolume(host, request))
     /\ \A request \in UnpublishRejects(Vols) : Invalid(NodeUnpublishVolume(host, request))
     /\ \A request \in StatsRejects(Vols) : Invalid(NodeGetVolumeStats(host, request))
     /\ (last.code \in {"InvalidArgument", "Unimplemented", "OutOfRange"}) => ~last.changed

\* A CreateVolume with a capacity range out of bounds has just been answered
\* with OutOfRange for a volume that is staged; nothing has changed.
C28_Witness ==
  /\ last.op = "CreateVolume"
  /\ last.code = "OutOfRange"
  /\ ~last.changed
  /\ images[last.id].exists
  /\ Staged(host, last.id)
  /\ AssociatedDevices(host, last.id) # {}

\* C29: from every reachable state, a CreateVolume that is valid but for its
\* topology (accessibility requirements absent, preferred list empty, or
\* first preferred segment without the configured key) is answered with
\* InvalidArgument and leaves the host as it was (no image is created).
C29_TopologyInvalidArgument ==
  \A request \in CreateRejects(Vols) :
    (/\ request.name # ""
     /\ request.volumeCapabilities = <<MountCap>>
     /\ request.topology \in {"nil", "empty", "nokey"}) =>
      LET r == CreateVolume(host, request)
      IN /\ r.code = "InvalidArgument"
         /\ r.h = host

\* C30: in every state reached through CreateVolume, NodeExpandVolume and
\* DeleteVolume (and the other RPCs), whatever their outcome, every image
\* file that exists has a logical length of at least minimumVolumeSize and
\* at most maximumVolumeSize.
C30_ImageLengthInBounds ==
  \A id \in Ids :
    images[id].exists =>
      /\ minimumVolumeSize <= images[id].size
      /\ images[id].size <= maximumVolumeSize

\* C34: from every reachable state (every prior state of the mount table), a
\* NodeStageVolume(id, staging) that returns OK leaves the staging path
\* mounted from a loop device bound to id's image, and a
\* NodePublishVolume(staging, target) that returns OK leaves the target a
\* bind mount of what is at the staging path.
C34_MountedFromSource ==
  /\ \A request \in StageRequests(Vols) :
       LET r == NodeStageVolume(host, request)
           at == r.h.mounts[request.stagingTargetPath]
       IN r.code = "OK" =>
            /\ at # << >>
            /\ ~Top(at).bind
            /\ Top(at).dev \in AssociatedDevices(r.h, request.volumeId)
  /\ \A request \in PublishRequests(Vols) :
       LET r == NodePublishVolume(host, request)
           at == r.h.mounts[request.targetPath]
           under == r.h.mounts[request.stagingTargetPath]
       IN r.code = "OK" =>
            /\ at # << >>
            /\ Top(at).bind
            /\ Top(at).dev = IF under = << >> THEN HostFs ELSE Top(under).dev

\* C35: after every CreateVolume or NodeExpandVolume that returned OK, the
\* capacity_bytes of the response equals the logical length of the volume's
\* image file, whatever the image was before the call.
C35_CapacityIsImageLength ==
  (last.op \in {"CreateVolume", "NodeExpandVolume"} /\ last.code = "OK") =>
    /\ images[last.id].exists
    /\ last.ret.capacity = images[last.id].size

\* C36: from every reachable state, a NodeExpandVolume that returns an error
\* leaves the logical length of the volume's image as it was before the
\* call.
C36_FailedExpandKeepsLength ==
  \A request \in NodeExpandRequests(Vols) :
    LET r == NodeExpandVolume(host, request)
    IN r.code # "OK" =>
         r.h.images[request.volumeId].size = images[request.volumeId].size

\* C39: after every DeleteVolume(id) that returned OK, no loop device is
\* bound to the image file of id, also when the volume was staged at the
\* time of the call.
C39_NoLoopOutlivesImage ==
  (last.op = "DeleteVolume" /\ last.code = "OK") =>
    \A dev \in Devices : ~(loops[dev].busy /\ loops[dev].id = last.id)

\* C38: in every reachable state, a NodeStageVolume whose FormatIfNot runs
\* mkfs on the image of id (the count of mkfs runs changes) finds no loop
\* device bound to an image of id, the one of a deleted earlier image
\* included, and nothing mounted at the staging path of id.
C38_MkfsOnlyOnUnusedImage ==
  \A request \in StageRequests(Vols) :
    LET volumeId == request.volumeId
        fsType == IF request.fsType # "" THEN request.fsType ELSE "ext4"
        f == FormatIfNot(host, volumeId, fsType)
    IN (f.err = "nil" /\ f.h.images[volumeId].mkfsRuns # images[volumeId].mkfsRuns) =>
         /\ \A dev \in Devices : ~(loops[dev].busy /\ loops[dev].id = volumeId)
         /\ mounts[StagingPath(volumeId)] = << >>

\* The part of the host that belongs to volume id: its image file, the loop
\* devices bound to its image, and what is mounted at its staging and
\* publish paths.
VolumeView(h, id) ==
  [image |-> h.images[id],
   devices |-> AssociatedDevices(h, id),
   staging |-> h.mounts[StagingPath(id)],
   targets |-> [k \in 1 .. NumTargets |-> h.mounts[TargetPath(id, k)]]]

\* The responses of the seven RPCs the orchestrator can address to volume A.
ResponsesFor(h, A) ==
  {CreateVolume(h, request) : request \in CreateRequests({A})}
  \cup {DeleteVolume(h, request) : request \in DeleteRequests({A})}
  \cup {NodeStageVolume(h, request) : request \in StageRequests({A})}
  \cup {NodeUnstageVolume(h, request) : request \in UnstageRequests({A})}
  \cup {NodePublishVolume(h, request) : request \in PublishRequests({A})}
  \cup {NodeUnpublishVolume(h, request) : request \in UnpublishRequests({A})}
  \cup {NodeExpandVolume(h, request) : request \in NodeExpandRequests({A})}

\* C37: from every reachable state of a node with two volumes, every RPC
\* addressed to volume A (create, delete, stage, unstage, publish,
\* unpublish, expand) leaves the image file, the set of loop devices bound
\* to the image and the staging and publish mounts of every other volume B
\* as they were.
C37_PerVolumeIsolation ==
  \A A \in Ids : \A B \in Ids \ {A} :
    \A r \in ResponsesFor(host, A) :
      VolumeView(r.h, B) = VolumeView(host, B)

\* No handler is in a call.
Quiescent == \A g \in Goroutines : calls[g] = Idle

\* C31: under every interleaving of the steps of two NodeStageVolume calls
\* for the same volume id, when both have returned at most one loop device
\* is bound to the image file.
C31_OneLoopUnderConcurrentStage ==
  Quiescent =>
    \A id \in Vols : Cardinality(AssociatedDevices(host, id)) <= 1

\* C32: under every interleaving of the steps of two Mount calls on the same
\* target (two NodeStageVolume or two NodePublishVolume), when both have
\* returned the mount table holds at most one entry at the target, and one
\* Unmount of the target leaves nothing mounted on it.
C32_OneMountUnderConcurrentMount ==
  Quiescent =>
    \A target \in Paths :
      /\ Len(mounts[target]) <= 1
      /\ Unmount(host, target).h.mounts[target] = << >>

\* C33: under every interleaving of the steps of two NodeExpandVolume calls
\* for the same volume id with different sizes, no step makes the logical
\* length of the image smaller than it was.
C33_LengthMonotoneUnderConcurrentExpand ==
  [][\A id \in Vols :
       (images[id].exists /\ images'[id].exists) =>
         images'[id].size >= images[id].size]_vars

====
